---- MODULE Spec2Model ----
(***************************************************************************)
(* A model of the privacy-preserving data system's stateful core:          *)
(*   - the SQLite-backed Store, the Controller's routing/contract          *)
(*     issuance and the Runtime plane (src/example_code.py);               *)
(*   - the differential-privacy BudgetLedger (src/src/ppds/budget.py);     *)
(*   - the fail-closed policy gate (src/src/ppds/policy_gate.py).          *)
(* Real-valued quantities (epsilon, delta, scores, materialized values)    *)
(* are integers in fixed units.                                            *)
(***************************************************************************)
EXTENDS Integers, Sequences, FiniteSets, Bags, TLC

VARIABLES
    \* ---- Store tables and the clock (src/example_code.py)
    now,                    \* what now_ts() returns
    routing_decisions,      \* table routing_decisions, PK (feature_id, issued_at)
    runtime_contracts,      \* table runtime_contracts, PK (feature_id, contract_version)
    runtime_staging,        \* table runtime_staging (no key): a bag of rows
    materialized_features,  \* table materialized_features (no key): a bag of rows
    audit_log,              \* table audit_log in insertion order
    catalog_features,       \* table catalog_features as the scoring batches read it
    feature_stats_ts,       \* table feature_stats_ts, PK (feature_id, window_id, granularity)
    probe_results,          \* table probe_results, PK feature_id
    lps_scorecards,         \* table lps_scorecards, PK (feature_id, computed_at)
    \* ---- concurrent issuers, each on a connection of its own to one database file
    issuer,                 \* issuer -> [pc, c]: position in run_contract_issuance_batch
    db_writer,              \* the connection holding SQLite's write lock, or NoConn
    txn_contracts,          \* runtime_contracts as the open write transaction sees it
    \* ---- BudgetLedger and the release pipelines that use it
    ledger,                 \* BudgetLedger._events: feature_id -> list of SpendEvent
    asof,                   \* today, as the pipelines pass it
    caps,                   \* [eps_cap, delta_cap, window_days] the pipelines pass
    pipeline,               \* pipeline -> [pc, ev]: between can_spend and commit
    \* ---- evaluate_policy_gate
    gate_in,                \* the arguments of one evaluation
    gate_out,               \* the GateDecision returned, or NoDecision
    \* ---- the ppds library functions and the batch command (src/src/ppds)
    call,                   \* the arguments of one call of a library function
    ret,                    \* what the call returned or raised, or NoReturn
    batch                   \* cmd_run_batch: its files, loop position, results, index

scoreVars == <<catalog_features, feature_stats_ts, probe_results, lps_scorecards>>
storeVars == <<now, routing_decisions, runtime_contracts, runtime_staging,
               materialized_features, audit_log, scoreVars>>
connVars == <<issuer, db_writer, txn_contracts>>
budgetVars == <<ledger, asof, caps, pipeline>>
gateVars == <<gate_in, gate_out>>
libVars == <<call, ret, batch>>
vars == <<storeVars, connVars, budgetVars, gateVars, libVars>>

-----------------------------------------------------------------------------
(* Bounds of the model *)

\* The clock runs over 0..MaxTime.
MaxTime == 1
\* The controller's handlers write at most MaxControllerAudit audit rows in all, and
\* the runtime plane's at most MaxRuntimeAudit: a handler that would go beyond is not
\* started.
MaxControllerAudit == 4
MaxRuntimeAudit == 4
\* The staging table holds at most MaxStaged rows.
MaxStaged == 2
\* The materialized table holds at most MaxMaterialized rows.
MaxMaterialized == 2
\* PolicyConfig.min_support_threshold of the policy under which the controller runs.
MinSupportThreshold == 2
\* Materialized values are in units of 1/ValueScale.
ValueScale == 2

-----------------------------------------------------------------------------
(* Constants / enums *)

BOUNDARIES == <<"LOCAL", "SHUFFLE", "CENTRAL">>
GRANULARITIES == <<"ITEM", "CLUSTER", "AGGREGATE">>
GRAN_ORDER == [ITEM |-> 0, CLUSTER |-> 1, AGGREGATE |-> 2]

Range(s) == {s[i] : i \in DOMAIN s}
Last(s) == s[Len(s)]
Max2(a, b) == IF a >= b THEN a ELSE b
Min2(a, b) == IF a <= b THEN a ELSE b
SetMin(S) == CHOOSE x \in S : \A y \in S : x <= y

g_at_least(g, min_g) == GRAN_ORDER[g] >= GRAN_ORDER[min_g]

\* sorted(xs, key, reverse=True)[0]: Python's sort is stable, and with reverse=True
\* keeps the original order of equal keys, so the result is the first element of
\* xs whose key is maximal. keys[i] is the key of xs[i]; the result is its position.
FirstMax(keys) ==
    SetMin({i \in DOMAIN keys : \A j \in DOMAIN keys : keys[j] <= keys[i]})

GranKey(g) == GRAN_ORDER[g]
coarsest(grans) == grans[FirstMax([i \in DOMAIN grans |-> GranKey(grans[i])])]

\* The catalog: the features Store.upsert_feature has stored, in rowid order.
\* boundary_capabilities x granularity_candidates is what a routing decision is drawn from.
Catalog == <<
    [feature_id |-> "f1", boundary_capabilities |-> {"CENTRAL", "LOCAL"},
     granularity_candidates |-> {"ITEM", "AGGREGATE"}],
    [feature_id |-> "f2", boundary_capabilities |-> {"CENTRAL"},
     granularity_candidates |-> {"CLUSTER"}] >>
list_features == [i \in DOMAIN Catalog |-> Catalog[i].feature_id]
FeatureIds == Range(list_features)
get_feature(fid) == CHOOSE f \in Range(Catalog) : f.feature_id = fid

\* PolicyConfig.central_sigma
central_sigma == 4

Windows == {"W1"}
Cells == {"k1", "k2"}
\* (clicks, impressions) of the signals offered to ingest_signal
Signals == {<<0, 1>>, <<2, 2>>, <<2, 1>>, <<-1, 1>>, <<0, -1>>}

NoContract == [feature_id |-> "none"]

-----------------------------------------------------------------------------
(* Store *)

\* One row of audit_log: (ts, event_type, feature_id, details_json).
AuditEntry(event_type, feature_id, details) ==
    [ts |-> now, event_type |-> event_type, feature_id |-> feature_id, details |-> details]

\* A variant of Store.audit that keeps only the latest row (UPDATE, not INSERT).
audit_Overwrite(log, event_type, feature_id, details) ==
    IF log = <<>> THEN <<AuditEntry(event_type, feature_id, details)>>
    ELSE [log EXCEPT ![Len(log)] = AuditEntry(event_type, feature_id, details)]

\* Store.audit
audit(log, event_type, feature_id, details) ==
    Append(log, AuditEntry(event_type, feature_id, details))

ControllerEvents == {"ROUTING_DECIDED", "CONTRACT_SKIPPED", "CONTRACT_PUBLISHED"}
RuntimeEvents == {"REJECT", "INGEST", "BLOCK", "DOWNGRADE", "DOWNGRADE_NOTICE", "MATERIALIZE"}
\* The number of audit rows of the given event types.
AuditCount(types) == Cardinality({i \in DOMAIN audit_log : audit_log[i].event_type \in types})

\* SELECT ... FROM routing_decisions WHERE feature_id=? ORDER BY issued_at DESC LIMIT 1
HasRoutingDecision(fid) == \E rd \in routing_decisions : rd.feature_id = fid
read_latest_routing_decision(fid) ==
    CHOOSE rd \in routing_decisions :
        /\ rd.feature_id = fid
        /\ \A o \in routing_decisions : o.feature_id = fid => o.issued_at <= rd.issued_at

\* INSERT OR REPLACE INTO runtime_contracts: the row with the same primary key goes.
InsertOrReplaceContract(tbl, c) ==
    {r \in tbl : ~(r.feature_id = c.feature_id /\ r.contract_version = c.contract_version)}
    \cup {[feature_id |-> c.feature_id, contract_version |-> c.contract_version,
           active |-> IF c.active THEN 1 ELSE 0, payload |-> c]}

\* UPDATE runtime_contracts SET active=0 WHERE feature_id=? AND contract_version<>?
DeactivateOthers(tbl, c) ==
    {IF r.feature_id = c.feature_id /\ r.contract_version # c.contract_version
       THEN [r EXCEPT !.active = 0] ELSE r : r \in tbl}

\* A variant that inserts the new version and leaves the older ones active.
append_runtime_contract_NoDeactivate(tbl, c) == InsertOrReplaceContract(tbl, c)

\* Store.append_runtime_contract: both statements, committed together.
append_runtime_contract(tbl, c) == DeactivateOthers(InsertOrReplaceContract(tbl, c), c)

\* SELECT payload_json ... WHERE feature_id=? AND active=1 ORDER BY contract_version DESC LIMIT 1
\* (contract_version is "c_<fid>_<ts>": within a feature the order is that of ts)
ActiveRows(tbl, fid) == {r \in tbl : r.feature_id = fid /\ r.active = 1}
read_active_contract(tbl, fid) ==
    IF ActiveRows(tbl, fid) = {} THEN NoContract
    ELSE (CHOOSE r \in ActiveRows(tbl, fid) :
            \A o \in ActiveRows(tbl, fid) : o.contract_version[3] <= r.contract_version[3]).payload

stage_event(boundary, fid, granularity, window_id, cell_key, clicks, impressions) ==
    runtime_staging (+) SetToBag({[boundary |-> boundary, feature_id |-> fid,
        granularity |-> granularity, window_id |-> window_id, cell_key |-> cell_key,
        clicks |-> clicks, impressions |-> impressions]})

\* The staged rows of one (boundary, feature, granularity, window), as a bag.
read_staged(boundary, fid, granularity, window_id) ==
    LET keep == {r \in BagToSet(runtime_staging) :
                    /\ r.boundary = boundary /\ r.feature_id = fid
                    /\ r.granularity = granularity /\ r.window_id = window_id}
    IN  [r \in keep |-> runtime_staging[r]]

-----------------------------------------------------------------------------
(* Controller *)

GRanularity_downgrades_Unordered(g) ==
    IF g = "ITEM" THEN <<"AGGREGATE", "CLUSTER">>
    ELSE IF g = "CLUSTER" THEN <<"AGGREGATE">>
    ELSE <<>>

GRanularity_downgrades(g) ==
    IF g = "ITEM" THEN <<"CLUSTER", "AGGREGATE">>
    ELSE IF g = "CLUSTER" THEN <<"AGGREGATE">>
    ELSE <<>>

aggregation_keys(granularity) ==
    IF granularity = "ITEM" THEN <<"item_id">>
    ELSE IF granularity = "CLUSTER" THEN <<"cluster_id">>
    ELSE <<>>

SelectionReasons == {<<"NO_FEASIBLE_STATS_FALLBACK_COARSE">>,
                     <<"MIN_EFFVAR_SELECTED", "TIEBREAK_FINEST_THEN_SAFEST">>}

\* Controller._persist_routing_decision, as run_granularity_selection_batch calls it
\* with the cell it selected. The INSERT fails (IntegrityError, nothing written) when
\* the feature already has a decision with this issued_at.
persist_routing_decision(fid, boundary, granularity, reasons) ==
    /\ AuditCount(ControllerEvents) < MaxControllerAudit
    /\ ~ \E rd \in routing_decisions : rd.feature_id = fid /\ rd.issued_at = now
    /\ routing_decisions' = routing_decisions \cup
         {[feature_id |-> fid,
           selected_boundary |-> boundary,
           selected_granularity |-> granularity,
           dp_mechanism |-> "GAUSSIAN",
           dp_parameters |-> [sigma |-> central_sigma,
                              min_support_threshold |-> MinSupportThreshold],
           aggregation_keys |-> aggregation_keys(granularity),
           join_policy |-> [allow_joins |-> (boundary = "CENTRAL")],
           decision_reason_codes |-> reasons,
           contract_version |-> <<"c", fid, now>>,
           issued_at |-> now]}
    /\ audit_log' = audit(audit_log, "ROUTING_DECIDED", fid,
                          [boundary |-> boundary, granularity |-> granularity,
                           reasons |-> reasons])
    /\ UNCHANGED <<now, runtime_contracts, runtime_staging, materialized_features>>
    /\ UNCHANGED <<connVars, budgetVars, gateVars, libVars, scoreVars>>

\* The RuntimeContract run_contract_issuance_batch builds from a routing decision.
ContractOf(rd) ==
    [feature_id |-> rd.feature_id,
     contract_version |-> rd.contract_version,
     boundary |-> rd.selected_boundary,
     granularity |-> rd.selected_granularity,
     aggregation_keys |-> rd.aggregation_keys,
     dp_mechanism |-> rd.dp_mechanism,
     dp_parameters |-> rd.dp_parameters,
     join_policy |-> rd.join_policy,
     allow_downgrade_to |->
        [i \in DOMAIN GRanularity_downgrades(rd.selected_granularity) |->
            <<rd.selected_boundary, GRanularity_downgrades(rd.selected_granularity)[i]>>],
     active |-> TRUE]

\* Controller.run_contract_issuance_batch, one feature of the batch.
run_contract_issuance_batch(fid) ==
    /\ AuditCount(ControllerEvents) < MaxControllerAudit
    /\ IF ~HasRoutingDecision(fid)
       THEN /\ audit_log' = audit(audit_log, "CONTRACT_SKIPPED", fid,
                                  [reason |-> "NO_ROUTING_DECISION"])
            /\ UNCHANGED runtime_contracts
       ELSE LET c == ContractOf(read_latest_routing_decision(fid))
            IN  /\ runtime_contracts' = append_runtime_contract(runtime_contracts, c)
                /\ audit_log' = audit(audit_log, "CONTRACT_PUBLISHED", fid,
                                      [contract_version |-> c.contract_version])
    /\ UNCHANGED <<now, routing_decisions, runtime_staging, materialized_features>>
    /\ UNCHANGED <<connVars, budgetVars, gateVars, libVars, scoreVars>>

\* The clock moves between two handlers.
Tick ==
    /\ now < MaxTime
    /\ now' = now + 1
    /\ UNCHANGED <<routing_decisions, runtime_contracts, runtime_staging,
                   materialized_features, audit_log>>
    /\ UNCHANGED <<connVars, budgetVars, gateVars, libVars, scoreVars>>

-----------------------------------------------------------------------------
(* Runtime plane *)

\* A variant that looks up the contract and stages the signal without the schema check.
ingest_signal_NoSchemaCheck(fid, window_id, cell_key, clicks, impressions) ==
    LET contract == read_active_contract(runtime_contracts, fid)
    IN  /\ AuditCount(RuntimeEvents) < MaxRuntimeAudit
        /\ IF contract = NoContract
           THEN /\ audit_log' = audit(audit_log, "REJECT", fid,
                                      [reason |-> "NO_ACTIVE_CONTRACT"])
                /\ UNCHANGED runtime_staging
           ELSE /\ BagCardinality(runtime_staging) < MaxStaged
                /\ runtime_staging' = stage_event(contract.boundary, fid,
                        contract.granularity, window_id, cell_key, clicks, impressions)
                /\ audit_log' = audit(audit_log, "INGEST", fid,
                        [boundary |-> contract.boundary,
                         granularity |-> contract.granularity,
                         window_id |-> window_id])
        /\ UNCHANGED <<now, routing_decisions, runtime_contracts, materialized_features>>
        /\ UNCHANGED <<connVars, budgetVars, gateVars, libVars, scoreVars>>

\* Runtime.ingest_signal
ingest_signal(fid, window_id, cell_key, clicks, impressions) ==
    LET contract == read_active_contract(runtime_contracts, fid)
    IN  /\ AuditCount(RuntimeEvents) < MaxRuntimeAudit
        /\ IF contract = NoContract
           THEN /\ audit_log' = audit(audit_log, "REJECT", fid,
                                      [reason |-> "NO_ACTIVE_CONTRACT"])
                /\ UNCHANGED runtime_staging
           ELSE IF clicks < 0 \/ impressions < 0 \/ clicks > impressions
           THEN /\ audit_log' = audit(audit_log, "REJECT", fid,
                                      [reason |-> "INVALID_EVENT"])
                /\ UNCHANGED runtime_staging
           ELSE /\ BagCardinality(runtime_staging) < MaxStaged
                /\ runtime_staging' = stage_event(contract.boundary, fid,
                        contract.granularity, window_id, cell_key, clicks, impressions)
                /\ audit_log' = audit(audit_log, "INGEST", fid,
                        [boundary |-> contract.boundary,
                         granularity |-> contract.granularity,
                         window_id |-> window_id])
        /\ UNCHANGED <<now, routing_decisions, runtime_contracts, materialized_features>>
        /\ UNCHANGED <<connVars, budgetVars, gateVars, libVars, scoreVars>>

\* The sum of a column over a bag of rows.
RECURSIVE BagSum(_, _)
BagSum(rows, col) ==
    IF DOMAIN rows = {} THEN 0
    ELSE LET r == CHOOSE x \in DOMAIN rows : TRUE
         IN  rows[r] * r[col] + BagSum([x \in DOMAIN rows \ {r} |-> rows[x]], col)

\* by_cell of Runtime.materialize: cell_key -> summed clicks and impressions.
by_cell(rows) ==
    [cell \in {r.cell_key : r \in DOMAIN rows} |->
        LET mine == [r \in {x \in DOMAIN rows : x.cell_key = cell} |-> rows[r]]
        IN  [clicks |-> BagSum(mine, "clicks"), impressions |-> BagSum(mine, "impressions")]]

min_support(bc) == SetMin({bc[cell].impressions : cell \in DOMAIN bc})

DowngradeKey(t) == GRAN_ORDER[t[2]]

\* A variant that, with no downgrade authorized, goes on under the contract as it is.
attempt_downgrade_KeepGoing(contract) ==
    IF contract.allow_downgrade_to = <<>>
    THEN [contract |-> contract, entries |-> <<>>]
    ELSE LET allowed == contract.allow_downgrade_to
             target == allowed[FirstMax([i \in DOMAIN allowed |-> DowngradeKey(allowed[i])])]
         IN  [contract |-> [contract EXCEPT !.granularity = target[2]],
              entries |-> << AuditEntry("DOWNGRADE", contract.feature_id,
                    [from |-> <<contract.boundary, contract.granularity>>,
                     to |-> target,
                     contract_version |-> contract.contract_version]) >>]

\* Runtime._attempt_downgrade: the contract to go on with (NoContract for None) and
\* the audit rows it writes.
attempt_downgrade(contract) ==
    IF contract.allow_downgrade_to = <<>>
    THEN [contract |-> NoContract, entries |-> <<>>]
    ELSE LET allowed == contract.allow_downgrade_to
             target == allowed[FirstMax([i \in DOMAIN allowed |-> DowngradeKey(allowed[i])])]
         IN  [contract |-> [contract EXCEPT !.granularity = target[2]],
              entries |-> << AuditEntry("DOWNGRADE", contract.feature_id,
                    [from |-> <<contract.boundary, contract.granularity>>,
                     to |-> target,
                     contract_version |-> contract.contract_version]) >>]

\* What gaussian_noise(std) can return, in units of 1/ValueScale.
gaussian_noise(std) == IF std = 0 THEN {0} ELSE {-1, 0, 1}

\* Runtime._apply_dp_mean_0_1 on clicks / imps, the noise drawn being `noise`.
apply_dp_mean_0_1(clicks, imps, noise) ==
    Max2(0, Min2(ValueScale, ((clicks * ValueScale) \div imps) + noise))

\* One turn of the loop of Runtime.materialize, for feature fid: whether rows are
\* written (write), under which contract, the cells aggregated, the rows to write
\* before noise (one per cell of by_cell), and the audit rows written.
MaterializePlan(fid, boundary, window_id) ==
    LET contract == read_active_contract(runtime_contracts, fid)
        skip == [write |-> FALSE, contract |-> NoContract, by_cell |-> <<>>,
                 cells |-> {}, entries |-> <<>>]
    IN  IF contract = NoContract THEN skip
        ELSE IF contract.boundary # boundary THEN skip
        ELSE LET rows == read_staged(boundary, fid, contract.granularity, window_id)
             IN  IF DOMAIN rows = {} THEN skip
                 ELSE LET bc == by_cell(rows)
                          ms == min_support(bc)
                          low == ms < contract.dp_parameters.min_support_threshold
                          dg == attempt_downgrade(contract)
                      IN  IF low /\ dg.contract = NoContract
                          THEN [write |-> FALSE, contract |-> contract, by_cell |-> bc,
                                cells |-> {},
                                entries |-> << AuditEntry("BLOCK", fid,
                                    [reason |-> "MIN_SUPPORT_FAIL", min_support |-> ms]) >>]
                          ELSE LET used == IF low THEN dg.contract ELSE contract
                               IN  [write |-> TRUE, contract |-> used, by_cell |-> bc,
                                    cells |-> {[boundary |-> boundary, feature_id |-> fid,
                                                granularity |-> used.granularity,
                                                window_id |-> window_id, cell_key |-> cell,
                                                clicks |-> bc[cell].clicks,
                                                imps |-> Max2(1, bc[cell].impressions),
                                                sigma |-> used.dp_parameters.sigma,
                                                contract_version |-> used.contract_version]
                                               : cell \in DOMAIN bc},
                                    entries |->
                                      (IF low
                                       THEN dg.entries \o << AuditEntry("DOWNGRADE_NOTICE", fid,
                                              [note |-> "demo does not re-stage by new granularity"]) >>
                                       ELSE <<>>)
                                      \o << AuditEntry("MATERIALIZE", fid,
                                              [boundary |-> boundary,
                                               granularity |-> used.granularity,
                                               window_id |-> window_id,
                                               contract_version |-> used.contract_version]) >>]

\* The loop of Runtime.materialize over list_features() from position i on: the cells
\* to write and the audit rows, in order.
RECURSIVE MaterializeLoop(_, _, _)
MaterializeLoop(i, boundary, window_id) ==
    IF i > Len(list_features) THEN [cells |-> {}, entries |-> <<>>]
    ELSE LET p == MaterializePlan(list_features[i], boundary, window_id)
             rest == MaterializeLoop(i + 1, boundary, window_id)
         IN  [cells |-> p.cells \cup rest.cells, entries |-> p.entries \o rest.entries]

\* The row write_materialized inserts for one cell, the noise drawn being `noise`.
MaterializedRow(c, noise) ==
    [boundary |-> c.boundary, feature_id |-> c.feature_id, granularity |-> c.granularity,
     window_id |-> c.window_id, cell_key |-> c.cell_key,
     value |-> apply_dp_mean_0_1(c.clicks, c.imps, noise),
     contract_version |-> c.contract_version]

\* Every way to draw one noise value per cell.
NoiseDraws(cells) == [cells -> UNION {gaussian_noise(c.sigma) : c \in cells}]

\* Runtime.materialize: the whole loop over list_features().
materialize(boundary, window_id) ==
    LET out == MaterializeLoop(1, boundary, window_id)
    IN  /\ AuditCount(RuntimeEvents) + Len(out.entries) <= MaxRuntimeAudit
        /\ BagCardinality(materialized_features) + Cardinality(out.cells) <= MaxMaterialized
        /\ \E nz \in NoiseDraws(out.cells) :
              /\ \A c \in out.cells : nz[c] \in gaussian_noise(c.sigma)
              /\ materialized_features' = materialized_features (+)
                    SetToBag({MaterializedRow(c, nz[c]) : c \in out.cells})
        /\ audit_log' = audit_log \o out.entries
        /\ UNCHANGED <<now, routing_decisions, runtime_contracts, runtime_staging>>
        /\ UNCHANGED <<connVars, budgetVars, gateVars, libVars, scoreVars>>

-----------------------------------------------------------------------------
(* The controller and the runtime plane on one store *)

NoConn == "none"
NoDecision == [decision |-> "none"]

ConnIdle ==
    /\ issuer = <<>>
    /\ db_writer = NoConn
    /\ txn_contracts = {}
BudgetIdle ==
    /\ ledger = <<>>
    /\ asof = 0
    /\ caps = <<>>
    /\ pipeline = <<>>
GateIdle ==
    /\ gate_in = <<>>
    /\ gate_out = NoDecision
\* The tables of the scoring batches, empty: the issuance and runtime planes
\* below read the constant Catalog and none of these.
ScoreIdle ==
    /\ catalog_features = <<>>
    /\ feature_stats_ts = {}
    /\ probe_results = <<>>
    /\ lps_scorecards = {}
NoReturn == [status |-> "none"]
LibIdle ==
    /\ call = <<>>
    /\ ret = NoReturn
    /\ batch = <<>>

\* The store after construction and Store.upsert_feature of the features of Catalog
\* (upsert_feature writes no audit row).
StoreInit ==
    /\ now = 0
    /\ routing_decisions = {}
    /\ runtime_contracts = {}
    /\ runtime_staging = EmptyBag
    /\ materialized_features = EmptyBag
    /\ audit_log = <<>>
    /\ ScoreIdle

Init == StoreInit /\ ConnIdle /\ BudgetIdle /\ GateIdle /\ LibIdle

Decide ==
    \E fid \in FeatureIds :
      \E b \in get_feature(fid).boundary_capabilities :
        \E g \in get_feature(fid).granularity_candidates :
          \E reasons \in SelectionReasons :
            persist_routing_decision(fid, b, g, reasons)
Issue == \E fid \in FeatureIds : run_contract_issuance_batch(fid)

Next == Tick \/ Decide \/ Issue

\* The controller plane from the store's construction on.
Spec == Init /\ [][Next]_vars

-----------------------------------------------------------------------------
(* The runtime plane, on the store the controller leaves behind *)

\* The routing decision persist_routing_decision stores at time 0.
DecisionAt0(fid, boundary, granularity, reasons) ==
    [feature_id |-> fid,
     selected_boundary |-> boundary,
     selected_granularity |-> granularity,
     dp_mechanism |-> "GAUSSIAN",
     dp_parameters |-> [sigma |-> central_sigma,
                        min_support_threshold |-> MinSupportThreshold],
     aggregation_keys |-> aggregation_keys(granularity),
     join_policy |-> [allow_joins |-> (boundary = "CENTRAL")],
     decision_reason_codes |-> reasons,
     contract_version |-> <<"c", fid, 0>>,
     issued_at |-> 0]

\* The store after the controller has run its selection and issuance batches once,
\* at time 0, over the features of `done` (feature -> the cell selected for it), in
\* catalog order.
RECURSIVE ControllerRan(_, _)
ControllerRan(i, done) ==
    IF i = 0
    THEN [routing_decisions |-> {}, runtime_contracts |-> {}, audit_log |-> <<>>]
    ELSE LET st == ControllerRan(i - 1, done)
             fid == list_features[i]
         IN  IF fid \notin DOMAIN done THEN st
             ELSE LET rd == DecisionAt0(fid, done[fid][1], done[fid][2],
                                        <<"MIN_EFFVAR_SELECTED", "TIEBREAK_FINEST_THEN_SAFEST">>)
                  IN  [routing_decisions |-> st.routing_decisions \cup {rd},
                       runtime_contracts |->
                            append_runtime_contract(st.runtime_contracts, ContractOf(rd)),
                       audit_log |-> st.audit_log \o
                          << [ts |-> 0, event_type |-> "ROUTING_DECIDED", feature_id |-> fid,
                              details |-> [boundary |-> rd.selected_boundary,
                                           granularity |-> rd.selected_granularity,
                                           reasons |-> rd.decision_reason_codes]],
                             [ts |-> 0, event_type |-> "CONTRACT_PUBLISHED", feature_id |-> fid,
                              details |-> [contract_version |-> rd.contract_version]] >>]

\* The cells the selection batch may have selected: for each feature of some subset
\* of the catalog, one of its boundary_capabilities x granularity_candidates.
Selections ==
    UNION {{d \in [S -> Range(BOUNDARIES) \X Range(GRANULARITIES)] :
                \A fid \in S : /\ d[fid][1] \in get_feature(fid).boundary_capabilities
                               /\ d[fid][2] \in get_feature(fid).granularity_candidates}
           : S \in SUBSET FeatureIds}

InitRuntime ==
    /\ \E done \in Selections :
          LET st == ControllerRan(Len(list_features), done)
          IN  /\ routing_decisions = st.routing_decisions
              /\ runtime_contracts = st.runtime_contracts
              /\ audit_log = st.audit_log
    /\ now = 0
    /\ runtime_staging = EmptyBag
    /\ materialized_features = EmptyBag
    /\ ScoreIdle
    /\ ConnIdle /\ BudgetIdle /\ GateIdle /\ LibIdle

Ingest ==
    \E fid \in FeatureIds, w \in Windows, cell \in Cells, s \in Signals :
        ingest_signal(fid, w, cell, s[1], s[2])
Materialize == \E b \in Range(BOUNDARIES), w \in Windows : materialize(b, w)

NextRuntime == Ingest \/ Materialize

SpecRuntime == InitRuntime /\ [][NextRuntime]_vars

-----------------------------------------------------------------------------
(* Concurrent issuers: run_contract_issuance_batch on connections of their own *)

\* Each issuer is a process with a Store of its own on the one database file
\* (sqlite3.connect(path)): a connection cannot be shared between threads, and a
\* handler has no point at which another handler of its own connection could run.
Issuers == {"A", "B"}
\* The feature both issuers' batches name.
IssuedFeatures == {list_features[1]}
NoFeature == "none"

\* What the other connections read while a write transaction is open and has
\* executed a statement: the committed table, not the transaction's working copy.
\* A variant in which each statement is committed on its own:
visible_before_commit_Autocommit(committed, working) == working

visible_before_commit(committed, working) == committed

\* SQLite admits one write transaction at a time.
LockFree == db_writer = NoConn

\* run_contract_issuance_batch([fid]) on connection i, up to the first write:
\* read_latest_routing_decision, and the contract built from it.
IssueRead(i, fid) ==
    /\ issuer[i].pc = "idle"
    /\ issuer' = [issuer EXCEPT ![i] =
          IF HasRoutingDecision(fid)
          THEN [pc |-> "insert", fid |-> fid,
                c |-> ContractOf(read_latest_routing_decision(fid))]
          ELSE [pc |-> "audit", fid |-> fid, c |-> NoContract]]
    /\ UNCHANGED <<storeVars, db_writer, txn_contracts, budgetVars, gateVars, libVars>>

\* append_runtime_contract, first statement: INSERT OR REPLACE opens the write
\* transaction of connection i.
IssueInsert(i) ==
    /\ issuer[i].pc = "insert"
    /\ LockFree
    /\ db_writer' = i
    /\ txn_contracts' = InsertOrReplaceContract(runtime_contracts, issuer[i].c)
    /\ runtime_contracts' = visible_before_commit(runtime_contracts, txn_contracts')
    /\ issuer' = [issuer EXCEPT ![i].pc = "deactivate"]
    /\ UNCHANGED <<now, routing_decisions, runtime_staging, materialized_features, audit_log>>
    /\ UNCHANGED <<budgetVars, gateVars, libVars, scoreVars>>

\* append_runtime_contract, second statement: UPDATE ... SET active=0, in the same
\* transaction.
IssueDeactivate(i) ==
    /\ issuer[i].pc = "deactivate"
    /\ db_writer = i
    /\ txn_contracts' = DeactivateOthers(txn_contracts, issuer[i].c)
    /\ runtime_contracts' = visible_before_commit(runtime_contracts, txn_contracts')
    /\ issuer' = [issuer EXCEPT ![i].pc = "commit"]
    /\ UNCHANGED <<now, routing_decisions, runtime_staging, materialized_features, audit_log>>
    /\ UNCHANGED <<db_writer, budgetVars, gateVars, libVars, scoreVars>>

\* append_runtime_contract, self.conn.commit(): both statements become visible.
IssueCommit(i) ==
    /\ issuer[i].pc = "commit"
    /\ db_writer = i
    /\ runtime_contracts' = txn_contracts
    /\ txn_contracts' = {}
    /\ db_writer' = NoConn
    /\ issuer' = [issuer EXCEPT ![i].pc = "audit"]
    /\ UNCHANGED <<now, routing_decisions, runtime_staging, materialized_features, audit_log>>
    /\ UNCHANGED <<budgetVars, gateVars, libVars, scoreVars>>

\* The audit row that ends the turn: CONTRACT_PUBLISHED, or CONTRACT_SKIPPED when
\* there was no routing decision. Store.audit is a write transaction of its own.
IssueAudit(i) ==
    /\ issuer[i].pc = "audit"
    /\ LockFree
    /\ audit_log' =
          IF issuer[i].c = NoContract
          THEN audit(audit_log, "CONTRACT_SKIPPED", issuer[i].fid,
                     [reason |-> "NO_ROUTING_DECISION"])
          ELSE audit(audit_log, "CONTRACT_PUBLISHED", issuer[i].fid,
                     [contract_version |-> issuer[i].c.contract_version])
    /\ issuer' = [issuer EXCEPT ![i].pc = "done"]
    /\ UNCHANGED <<now, routing_decisions, runtime_contracts, runtime_staging,
                   materialized_features>>
    /\ UNCHANGED <<db_writer, txn_contracts, budgetVars, gateVars, libVars, scoreVars>>

\* A statement that needs the write lock while another connection holds it raises
\* sqlite3.OperationalError (database is locked) once the busy timeout is over:
\* the batch ends there.
IssueBusy(i) ==
    /\ issuer[i].pc \in {"insert", "audit"}
    /\ db_writer \notin {NoConn, i}
    /\ issuer' = [issuer EXCEPT ![i].pc = "failed"]
    /\ UNCHANGED <<storeVars, db_writer, txn_contracts, budgetVars, gateVars, libVars>>

\* The selection batch persists a routing decision on the controller's connection.
DecideUnlocked ==
    /\ LockFree
    /\ \E fid \in FeatureIds :
         \E b \in get_feature(fid).boundary_capabilities :
           \E g \in get_feature(fid).granularity_candidates :
             persist_routing_decision(fid, b, g,
                <<"MIN_EFFVAR_SELECTED", "TIEBREAK_FINEST_THEN_SAFEST">>)

InitIssue ==
    /\ StoreInit
    /\ issuer = [i \in Issuers |-> [pc |-> "idle", fid |-> NoFeature, c |-> NoContract]]
    /\ db_writer = NoConn
    /\ txn_contracts = {}
    /\ BudgetIdle /\ GateIdle /\ LibIdle

IssuerStep ==
    \E i \in Issuers :
        \/ \E fid \in IssuedFeatures : IssueRead(i, fid)
        \/ IssueInsert(i)
        \/ IssueDeactivate(i)
        \/ IssueCommit(i)
        \/ IssueAudit(i)
        \/ IssueBusy(i)

NextIssue == Tick \/ DecideUnlocked \/ IssuerStep

SpecIssue == InitIssue /\ [][NextIssue]_vars

-----------------------------------------------------------------------------
(* BudgetLedger (src/src/ppds/budget.py) and the release pipelines *)

\* Epsilon, delta and the caps are non-negative integers, in one fixed unit: the
\* checks compare sums, and floating-point addition of non-negative terms is
\* monotone as integer addition is.
\* Days run over 0..MaxDay.
MaxDay == 1
\* A release asks for epsilon and delta in 0..MaxSpend.
MaxSpend == 1
\* The caps are in 0..MaxCap.
MaxCap == 1
\* window_days is in 1..MaxWindow.
MaxWindow == 2
\* The ledger holds at most MaxEvents events in all.
MaxEvents == 2

Pipelines == {"p1", "p2"}
NoEvent == [feature_id |-> "none"]

SpendEvent(fid, day, epsilon, delta) ==
    [feature_id |-> fid, day |-> day, epsilon |-> epsilon, delta |-> delta]

\* self._events.get(feature_id, [])
EventsOf(led, fid) == IF fid \in DOMAIN led THEN led[fid] ELSE <<>>

\* BudgetLedger.commit: self._events.setdefault(event.feature_id, []).append(event)
commit(led, event) ==
    [f \in DOMAIN led \cup {event.feature_id} |->
        IF f = event.feature_id THEN Append(EventsOf(led, f), event) ELSE led[f]]

\* The loop of window_spend from position i on.
RECURSIVE SumWindow(_, _, _, _, _)
SumWindow(events, i, start, asof_, col) ==
    IF i > Len(events) THEN 0
    ELSE (IF start <= events[i].day /\ events[i].day <= asof_ THEN events[i][col] ELSE 0)
         + SumWindow(events, i + 1, start, asof_, col)

\* A variant of window_spend whose window leaves out its first day.
window_spend_OpenStart(led, fid, window_days, asof_) ==
    LET start == asof_ - (window_days - 1) + 1
    IN  << SumWindow(EventsOf(led, fid), 1, start, asof_, "epsilon"),
           SumWindow(EventsOf(led, fid), 1, start, asof_, "delta") >>

\* BudgetLedger.window_spend: <<eps, delt>>
window_spend(led, fid, window_days, asof_) ==
    LET start == asof_ - (window_days - 1)
    IN  << SumWindow(EventsOf(led, fid), 1, start, asof_, "epsilon"),
           SumWindow(EventsOf(led, fid), 1, start, asof_, "delta") >>

\* A variant that checks epsilon alone.
can_spend_EpsOnly(led, fid, window_days, asof_, eps_cap, delta_cap, next_eps, next_delta) ==
    window_spend(led, fid, window_days, asof_)[1] + next_eps <= eps_cap

\* BudgetLedger.can_spend
can_spend(led, fid, window_days, asof_, eps_cap, delta_cap, next_eps, next_delta) ==
    LET ws == window_spend(led, fid, window_days, asof_)
    IN  (ws[1] + next_eps <= eps_cap) /\ (ws[2] + next_delta <= delta_cap)

RECURSIVE SeqSum(_)
SeqSum(q) == IF q = <<>> THEN 0 ELSE Head(q) + SeqSum(Tail(q))
\* The events in the ledger, and those a pipeline is about to commit.
LedgerSize == SeqSum([k \in DOMAIN list_features |-> Len(EventsOf(ledger, list_features[k]))])
Pending == Cardinality({q \in Pipelines : pipeline[q].pc = "commit"})

\* A release pipeline calls can_spend for the release it plans today; on true it
\* goes on to commit the SpendEvent, on false it gives the release up.
PipelineCheck(q, fid, next_eps, next_delta) ==
    /\ pipeline[q].pc = "idle"
    /\ LedgerSize + Pending < MaxEvents
    /\ pipeline' = [pipeline EXCEPT ![q] =
          IF can_spend(ledger, fid, caps.window_days, asof, caps.eps_cap, caps.delta_cap,
                       next_eps, next_delta)
          THEN [pc |-> "commit", ev |-> SpendEvent(fid, asof, next_eps, next_delta)]
          ELSE [pc |-> "idle", ev |-> NoEvent]]
    /\ UNCHANGED <<ledger, asof, caps, storeVars, connVars, gateVars, libVars>>

\* The pipeline commits the event can_spend admitted.
PipelineCommit(q) ==
    /\ pipeline[q].pc = "commit"
    /\ ledger' = commit(ledger, pipeline[q].ev)
    /\ pipeline' = [pipeline EXCEPT ![q] = [pc |-> "idle", ev |-> NoEvent]]
    /\ UNCHANGED <<asof, caps, storeVars, connVars, gateVars, libVars>>

\* The next day begins.
NextDay ==
    /\ asof < MaxDay
    /\ asof' = asof + 1
    /\ UNCHANGED <<ledger, caps, pipeline, storeVars, connVars, gateVars, libVars>>

InitBudget ==
    /\ ledger = <<>>
    /\ asof = 0
    /\ caps \in [eps_cap : 0..MaxCap, delta_cap : 0..MaxCap, window_days : 1..MaxWindow]
    /\ pipeline = [q \in Pipelines |-> [pc |-> "idle", ev |-> NoEvent]]
    /\ StoreInit /\ ConnIdle /\ GateIdle /\ LibIdle

Check ==
    \E q \in Pipelines, fid \in FeatureIds, e \in 0..MaxSpend, d \in 0..MaxSpend :
        PipelineCheck(q, fid, e, d)
Commit == \E q \in Pipelines : PipelineCommit(q)

\* The pipelines run concurrently on one ledger: their steps interleave freely
\* (BudgetLedger takes no lock).
NextBudget == Check \/ Commit \/ NextDay

SpecBudget == InitBudget /\ [][NextBudget]_vars

\* A sequential run: a pipeline starts its check only when no other pipeline is
\* between its check and its commit.
NoneInFlight == \A q \in Pipelines : pipeline[q].pc = "idle"
SeqCheck == NoneInFlight /\ Check

NextBudgetSeq == SeqCheck \/ Commit \/ NextDay

SpecBudgetSeq == InitBudget /\ [][NextBudgetSeq]_vars

-----------------------------------------------------------------------------
(* The fail-closed policy gate (src/src/ppds/policy_gate.py) *)

EXIT_ALLOW == 0
EXIT_REJECT == 2

\* Scores and thresholds are integers in units of 1/ScoreUnit of the last digit
\* that canonicalize keeps (float_ndigits digits): a multiple of ScoreUnit is a
\* float with no digit beyond it.
ScoreUnit == 3
\* Scores and thresholds are in 0..MaxScore.
MaxScore == 7

\* None, and a value that is not None, as threshold_override holds them.
None == <<>>
Some(v) == <<v>>

\* round(x, float_ndigits): to the nearest multiple of ScoreUnit, a tie going to the
\* even one.
round(x) ==
    LET q == x \div ScoreUnit
        r == x % ScoreUnit
    IN  IF 2 * r < ScoreUnit THEN q * ScoreUnit
        ELSE IF 2 * r > ScoreUnit THEN (q + 1) * ScoreUnit
        ELSE IF q % 2 = 0 THEN q * ScoreUnit ELSE (q + 1) * ScoreUnit

\* What compute_lps_fn(input_payload) does:
\*   "raises"       it raises an Exception;
\*   "malformed"    it returns something that is not a pair;
\*   "incomparable" it returns a score (None, a string) that > cannot compare to a float;
\*   "nan"          it returns the float nan;
\*   "score"        it returns a float score.
ScoringOutcomes == {"raises", "malformed", "incomparable", "nan", "score"}

\* canonicalize on the score: a float is rounded, anything else is kept or turned
\* into its string.
canonicalize(kind, score) == IF kind = "score" THEN round(score) ELSE kind

\* A variant whose exception branch follows hard_reject as the threshold branch does.
evaluate_policy_gate_SoftError(in) ==
    LET effective_threshold ==
            IF in.threshold_override # None THEN in.threshold_override[1]
            ELSE in.policy_threshold
        score == canonicalize(in.kind, in.score)
    IN  IF in.kind \in {"raises", "malformed", "incomparable"}
        THEN [decision |-> IF in.hard_reject THEN "REJECT" ELSE "ALLOW",
              exit_code |-> IF in.hard_reject THEN EXIT_REJECT ELSE EXIT_ALLOW,
              score |-> None, threshold_effective |-> effective_threshold,
              reasons |-> <<"EVALUATION_ERROR">>]
        ELSE IF in.kind = "score" /\ score > effective_threshold
        THEN [decision |-> IF in.hard_reject THEN "REJECT" ELSE "ALLOW",
              exit_code |-> IF in.hard_reject THEN EXIT_REJECT ELSE EXIT_ALLOW,
              score |-> score, threshold_effective |-> effective_threshold,
              reasons |-> <<"LPS_THRESHOLD_EXCEEDED">>]
        ELSE [decision |-> "ALLOW", exit_code |-> EXIT_ALLOW,
              score |-> score, threshold_effective |-> effective_threshold,
              reasons |-> <<>>]

\* evaluate_policy_gate: the GateDecision returned.
evaluate_policy_gate(in) ==
    LET effective_threshold ==
            IF in.threshold_override # None THEN in.threshold_override[1]
            ELSE in.policy_threshold
        score == canonicalize(in.kind, in.score)
    IN  IF in.kind \in {"raises", "malformed"}
        \* compute_lps_fn raised, or the unpacking of its result did: lps_meta is as
        \* it was initialised
        THEN [decision |-> "REJECT", exit_code |-> EXIT_REJECT,
              score |-> None, threshold_effective |-> effective_threshold,
              reasons |-> <<"EVALUATION_ERROR">>]
        ELSE IF in.kind = "incomparable"
        \* the comparison raised TypeError: lps_meta holds the canonicalized result
        THEN [decision |-> "REJECT", exit_code |-> EXIT_REJECT,
              score |-> score, threshold_effective |-> effective_threshold,
              reasons |-> <<"EVALUATION_ERROR">>]
        ELSE IF in.kind = "score" /\ score > effective_threshold
        THEN [decision |-> IF in.hard_reject THEN "REJECT" ELSE "ALLOW",
              exit_code |-> IF in.hard_reject THEN EXIT_REJECT ELSE EXIT_ALLOW,
              score |-> score, threshold_effective |-> effective_threshold,
              reasons |-> <<"LPS_THRESHOLD_EXCEEDED">>]
        \* no violation (nan > threshold is False)
        ELSE [decision |-> "ALLOW", exit_code |-> EXIT_ALLOW,
              score |-> score, threshold_effective |-> effective_threshold,
              reasons |-> <<>>]

GateInputs ==
    [kind : ScoringOutcomes, score : 0..MaxScore, policy_threshold : 0..MaxScore,
     threshold_override : {None} \cup {Some(v) : v \in 0..MaxScore}, hard_reject : BOOLEAN]

\* One call of evaluate_policy_gate on the arguments gate_in.
Evaluate ==
    /\ gate_out = NoDecision
    /\ gate_out' = evaluate_policy_gate(gate_in)
    /\ UNCHANGED <<gate_in, storeVars, connVars, budgetVars, libVars>>

InitGate ==
    /\ gate_in \in {in \in GateInputs : in.kind # "score" => in.score = 0}
    /\ gate_out = NoDecision
    /\ StoreInit /\ ConnIdle /\ BudgetIdle /\ LibIdle

NextGate == Evaluate

SpecGate == InitGate /\ [][NextGate]_vars

-----------------------------------------------------------------------------
(* Properties of contract issuance *)

ContractRows(fid) == {r \in runtime_contracts : r.feature_id = fid}
\* The positions of the audit rows that record an issuance for fid.
Published(fid) ==
    {i \in DOMAIN audit_log : /\ audit_log[i].event_type = "CONTRACT_PUBLISHED"
                              /\ audit_log[i].feature_id = fid}
SetMax(S) == CHOOSE x \in S : \A y \in S : y <= x
LastIssuedVersion(fid) == audit_log[SetMax(Published(fid))].details.contract_version

\* C1: after any sequence of issuances, a feature with at least one issuance has
\* exactly one active contract row, and it is the version issued last; a feature
\* with no issuance has no active row.
C1_OneActiveAndLatest ==
    \A fid \in FeatureIds :
        IF Published(fid) = {}
        THEN ActiveRows(runtime_contracts, fid) = {}
        ELSE \E r \in runtime_contracts :
                /\ ActiveRows(runtime_contracts, fid) = {r}
                /\ r.contract_version = LastIssuedVersion(fid)

\* A second version has been issued for a feature: two rows, the older one inactive.
C1_Witness ==
    \E fid \in FeatureIds :
        /\ Cardinality(ContractRows(fid)) = 2
        /\ Cardinality(ActiveRows(runtime_contracts, fid)) = 1
        /\ Cardinality(Published(fid)) = 2

-----------------------------------------------------------------------------
(* Properties of the runtime plane *)

InvalidSignal(clicks, impressions) == clicks < 0 \/ impressions < 0 \/ clicks > impressions

\* The audit rows a step appends.
NewEntries == SubSeq(audit_log', Len(audit_log) + 1, Len(audit_log'))

\* C5 as stated: ingest_signal, in any store state, rejects an invalid signal with
\* reason INVALID_EVENT and stages nothing.
C5_InvalidRejectedAsInvalidEvent ==
    [][\A fid \in FeatureIds, w \in Windows, cell \in Cells, s \in Signals :
          (InvalidSignal(s[1], s[2]) /\ ingest_signal(fid, w, cell, s[1], s[2]))
          => /\ runtime_staging' = runtime_staging
             /\ NewEntries = << AuditEntry("REJECT", fid, [reason |-> "INVALID_EVENT"]) >>
      ]_vars

\* C5 amended: ingest_signal never stages an invalid signal; it rejects it with reason
\* INVALID_EVENT when the feature has an active contract and with reason
\* NO_ACTIVE_CONTRACT when it has none (the contract lookup comes first).
C5_InvalidNeverStaged ==
    [][\A fid \in FeatureIds, w \in Windows, cell \in Cells, s \in Signals :
          (InvalidSignal(s[1], s[2]) /\ ingest_signal(fid, w, cell, s[1], s[2]))
          => /\ runtime_staging' = runtime_staging
             /\ NewEntries = << AuditEntry("REJECT", fid,
                    [reason |-> IF ActiveRows(runtime_contracts, fid) = {}
                                THEN "NO_ACTIVE_CONTRACT" ELSE "INVALID_EVENT"]) >>
      ]_vars

\* An invalid signal has just been rejected as INVALID_EVENT, with a valid one staged before.
C5_Witness ==
    /\ audit_log # <<>>
    /\ Last(audit_log).event_type = "REJECT"
    /\ Last(audit_log).details.reason = "INVALID_EVENT"
    /\ BagCardinality(runtime_staging) = 1

\* The staged rows materialize(boundary, window_id) aggregates for fid, read from the
\* tables: those of the active contract's granularity.
StagedFor(fid, boundary, window_id, granularity) ==
    {r \in DOMAIN runtime_staging :
        /\ r.boundary = boundary /\ r.feature_id = fid
        /\ r.granularity = granularity /\ r.window_id = window_id}
\* The impressions of one cell, summed over the staged rows of a granularity.
CellImpressions(fid, boundary, window_id, granularity, cell) ==
    BagSum([r \in {x \in StagedFor(fid, boundary, window_id, granularity) : x.cell_key = cell}
               |-> runtime_staging[r]], "impressions")
\* Whether every staged cell of that granularity has at least `threshold` impressions.
SupportSuffices(fid, boundary, window_id, granularity, threshold) ==
    /\ StagedFor(fid, boundary, window_id, granularity) # {}
    /\ \A r \in StagedFor(fid, boundary, window_id, granularity) :
          CellImpressions(fid, boundary, window_id, granularity, r.cell_key) >= threshold

\* The feature has an active contract at `boundary`, staged rows for the window, and
\* a cell whose impressions are below the contract's min_support_threshold.
BelowMinSupport(fid, boundary, window_id) ==
    /\ ActiveRows(runtime_contracts, fid) # {}
    /\ LET c == read_active_contract(runtime_contracts, fid)
       IN  /\ c.boundary = boundary
           /\ StagedFor(fid, boundary, window_id, c.granularity) # {}
           /\ ~SupportSuffices(fid, boundary, window_id, c.granularity,
                               c.dp_parameters.min_support_threshold)

\* The materialized rows of a feature and window, with their multiplicities.
MaterializedOf(tbl, fid, window_id) ==
    [r \in {x \in DOMAIN tbl : x.feature_id = fid /\ x.window_id = window_id} |-> tbl[r]]

\* C6: when materialize finds the minimum support of a feature below its contract's
\* threshold and the contract authorizes no downgrade, it emits one BLOCK entry with
\* reason MIN_SUPPORT_FAIL for the feature and writes no materialized row for that
\* feature and window.
C6_BlockedWritesNothing ==
    [][\A b \in Range(BOUNDARIES), w \in Windows :
          materialize(b, w) =>
            \A fid \in FeatureIds :
              (/\ BelowMinSupport(fid, b, w)
               /\ read_active_contract(runtime_contracts, fid).allow_downgrade_to = <<>>)
              => /\ Cardinality({i \in DOMAIN NewEntries :
                        /\ NewEntries[i].feature_id = fid
                        /\ NewEntries[i].event_type = "BLOCK"
                        /\ NewEntries[i].details.reason = "MIN_SUPPORT_FAIL"}) = 1
                 /\ \A i \in DOMAIN NewEntries :
                        NewEntries[i].feature_id = fid => NewEntries[i].event_type = "BLOCK"
                 /\ MaterializedOf(materialized_features', fid, w)
                        = MaterializedOf(materialized_features, fid, w)
      ]_vars

\* A materialization has just been blocked for a feature whose contract has no
\* downgrade, while another feature's rows were written by the same call.
C6_Witness ==
    /\ \E i \in DOMAIN audit_log :
          /\ audit_log[i].event_type = "BLOCK"
          /\ audit_log[i].details.reason = "MIN_SUPPORT_FAIL"
          /\ read_active_contract(runtime_contracts, audit_log[i].feature_id)
                .allow_downgrade_to = <<>>
          /\ \A r \in DOMAIN materialized_features :
                r.feature_id # audit_log[i].feature_id
    /\ materialized_features # EmptyBag
    /\ Last(audit_log).event_type = "MATERIALIZE"

\* The support an AGGREGATE-level release of the staged rows would have: the
\* impressions of all the cells together.
TotalImpressions(fid, boundary, window_id, granularity) ==
    BagSum([r \in StagedFor(fid, boundary, window_id, granularity) |-> runtime_staging[r]],
           "impressions")

\* C7 as stated: when the minimum support is below the threshold and a downgrade is
\* authorized, materialize attempts exactly one downgrade, to the coarsest authorized
\* target; it retries enforcement under that target, so rows are written for the
\* feature exactly when the target's support (at best the impressions of all staged
\* cells together) reaches the threshold; the stored contract is unchanged.
C7_DowngradeRetriesEnforcement ==
    [][\A b \in Range(BOUNDARIES), w \in Windows :
          materialize(b, w) =>
            \A fid \in FeatureIds :
              LET c == read_active_contract(runtime_contracts, fid)
                  target == coarsest([i \in DOMAIN c.allow_downgrade_to |->
                                        c.allow_downgrade_to[i][2]])
                  downs == {i \in DOMAIN NewEntries :
                              /\ NewEntries[i].feature_id = fid
                              /\ NewEntries[i].event_type = "DOWNGRADE"}
              IN  (BelowMinSupport(fid, b, w) /\ c.allow_downgrade_to # <<>>)
                  => /\ Cardinality(downs) = 1
                     /\ \A i \in downs : NewEntries[i].details.to = <<c.boundary, target>>
                     /\ runtime_contracts' = runtime_contracts
                     /\ (MaterializedOf(materialized_features', fid, w)
                            # MaterializedOf(materialized_features, fid, w))
                        <=> (TotalImpressions(fid, b, w, c.granularity)
                                >= c.dp_parameters.min_support_threshold)
      ]_vars

\* The last handler to run was materialize(boundary, window_id), and it wrote rows:
\* every other handler appends an audit row of its own.
JustMaterialized(boundary, window_id) ==
    /\ audit_log # <<>>
    /\ Last(audit_log).event_type = "MATERIALIZE"
    /\ Last(audit_log).details.boundary = boundary
    /\ Last(audit_log).details.window_id = window_id

\* The number of materialized rows of one (boundary, feature, window, cell).
RowsOfCell(tbl, boundary, fid, window_id, cell) ==
    BagCardinality([r \in {x \in DOMAIN tbl :
                            /\ x.boundary = boundary /\ x.feature_id = fid
                            /\ x.window_id = window_id /\ x.cell_key = cell} |-> tbl[r]])

\* C8 as stated: materialize run again on the same staged events and contracts leaves
\* the materialized output as the first run left it, one row per feature, window
\* and cell.
C8_RerunLeavesOutput ==
    [][\A b \in Range(BOUNDARIES), w \in Windows :
          (JustMaterialized(b, w) /\ materialize(b, w))
          => \A fid \in FeatureIds, cell \in Cells :
                RowsOfCell(materialized_features', b, fid, w, cell)
                    = RowsOfCell(materialized_features, b, fid, w, cell)
      ]_vars

-----------------------------------------------------------------------------
(* Properties of concurrent issuance *)

\* append_runtime_contract has returned on connection i.
Issued(i) == issuer[i].pc \in {"audit", "done"} /\ issuer[i].c # NoContract

\* C2: with two issuances for one feature running concurrently, the steps of their
\* append_runtime_contract interleaved in every order the database admits, no state
\* of the table that a connection can read shows two active contracts of a feature,
\* and once both issuances have completed the feature has exactly one.
C2_NeverTwoActive ==
    \A fid \in FeatureIds :
        /\ Cardinality(ActiveRows(runtime_contracts, fid)) <= 1
        /\ (\A i \in Issuers : Issued(i) /\ issuer[i].fid = fid)
              => Cardinality(ActiveRows(runtime_contracts, fid)) = 1

\* Both issuances have completed for one feature with different versions, and the
\* one that read its routing decision first committed last: the older version is
\* the active one.
C2_Witness ==
    \E fid \in FeatureIds, r \in runtime_contracts :
        /\ \A i \in Issuers : Issued(i) /\ issuer[i].fid = fid
        /\ issuer["A"].c.contract_version # issuer["B"].c.contract_version
        /\ ActiveRows(runtime_contracts, fid) = {r}
        /\ \E o \in ContractRows(fid) : o.contract_version[3] > r.contract_version[3]

-----------------------------------------------------------------------------
(* Properties of the budget ledger *)

\* C3 as stated: whatever the interleaving of two pipelines' can_spend and commit
\* calls, the window spend of a feature never goes above eps_cap or delta_cap.
C3_NoJointOverspend ==
    \A fid \in FeatureIds :
        LET ws == window_spend(ledger, fid, caps.window_days, asof)
        IN  ws[1] <= caps.eps_cap /\ ws[2] <= caps.delta_cap

\* The window spend of every feature is within the caps.
SpendWithinCaps ==
    \A fid \in FeatureIds :
        /\ window_spend(ledger, fid, caps.window_days, asof)[1] <= caps.eps_cap
        /\ window_spend(ledger, fid, caps.window_days, asof)[2] <= caps.delta_cap

\* A pipeline goes on to commit exactly when window_spend + next <= cap for both
\* epsilon and delta.
ChecksAgainstCaps ==
    \A q \in Pipelines, fid \in FeatureIds, e \in 0..MaxSpend, d \in 0..MaxSpend :
        PipelineCheck(q, fid, e, d) =>
            ((pipeline'[q].pc = "commit") <=>
                /\ window_spend(ledger, fid, caps.window_days, asof)[1] + e <= caps.eps_cap
                /\ window_spend(ledger, fid, caps.window_days, asof)[2] + d <= caps.delta_cap)

\* C4: can_spend is true iff window_spend + next <= cap for both epsilon and delta;
\* and in a sequential run, where every event committed (non-negative epsilon and
\* delta, day = asof, asof never decreasing) was admitted by can_spend just before,
\* the window spend of a feature never exceeds the caps.
C4_CheckedSpendWithinCaps == [][ChecksAgainstCaps]_vars /\ []SpendWithinCaps

\* A feature has spent the whole epsilon cap on each of two days: the window of one
\* day has slid, and the second release was admitted and committed.
C4_Witness ==
    \E fid \in DOMAIN ledger :
        /\ Len(ledger[fid]) = 2
        /\ ledger[fid][1].day < ledger[fid][2].day
        /\ ledger[fid][1].epsilon > 0
        /\ ledger[fid][1].epsilon = caps.eps_cap
        /\ window_spend(ledger, fid, caps.window_days, asof)[1] = caps.eps_cap

-----------------------------------------------------------------------------
(* Properties of the policy gate *)

Evaluated == gate_out # NoDecision

\* C9: when compute_lps_fn raises, or returns something that cannot be compared to
\* the threshold, evaluate_policy_gate returns REJECT with exit code 2 and the single
\* reason EVALUATION_ERROR, whatever hard_reject and threshold_override are.
C9_FailClosed ==
    (Evaluated /\ gate_in.kind \in {"raises", "malformed", "incomparable"})
    => /\ gate_out.decision = "REJECT"
       /\ gate_out.exit_code = 2
       /\ gate_out.reasons = <<"EVALUATION_ERROR">>

\* The scoring function raised in a call with hard_reject off and a threshold
\* override given, and the gate rejected.
C9_Witness ==
    /\ Evaluated
    /\ gate_in.kind = "raises"
    /\ ~gate_in.hard_reject
    /\ gate_in.threshold_override # None
    /\ gate_out.decision = "REJECT"

\* C10 as stated: whenever the score is above the effective threshold (the override
\* when one is given, the policy's otherwise) the verdict is REJECT with reason
\* LPS_THRESHOLD_EXCEEDED, hard_reject deciding the exit code alone; and a verdict
\* of ALLOW has no reasons.
C10_RejectAboveThreshold ==
    (Evaluated /\ gate_in.kind = "score")
    => LET effective_threshold ==
               IF gate_in.threshold_override = None THEN gate_in.policy_threshold
               ELSE gate_in.threshold_override[1]
       IN  /\ (gate_in.score > effective_threshold)
                => /\ gate_out.decision = "REJECT"
                   /\ gate_out.reasons = <<"LPS_THRESHOLD_EXCEEDED">>
                   /\ gate_out.exit_code = IF gate_in.hard_reject THEN 2 ELSE 0
           /\ (gate_out.decision = "ALLOW") => (gate_out.reasons = <<>>)

\* ======================================================================
\* The planner of the ppds package (src/src/ppds/planner.py, lps/core.py,
\* types.py).  The L, U, I, R components are fixed-point numbers in which
\* 1.0 is ONE; the weights alpha_* are hundredths, so that the risk and the
\* thresholds tau_* are fixed-point numbers in which 1.0 is 100 * ONE.
ONE == 10000

clamp01(x) == Max2(0, Min2(ONE, x))

\* compute_linkability without its join surface: every feature scores 0.0.
compute_linkability_NoJoinSurface(feature) == 0

\* The integer square root of n, found between lo and hi (x ** 0.5, truncated).
RECURSIVE isqrt(_, _, _)
isqrt(n, lo, hi) ==
    IF lo >= hi THEN lo
    ELSE LET mid == (lo + hi + 1) \div 2
         IN  IF mid * mid <= n THEN isqrt(n, mid, hi) ELSE isqrt(n, lo, mid - 1)

\* ndv_hint is None or Some(n) with n at most 20,000,000.
compute_linkability(feature) ==
    IF feature.join_keys = <<>> THEN 0
    ELSE LET ndv_factor(jk) ==
                 IF jk.ndv_hint # None /\ jk.ndv_hint[1] > 0
                 THEN Min2(ONE, isqrt(jk.ndv_hint[1] * 100, 0, 46340))
                 ELSE 0
             c(jk) == (8 * clamp01(jk.stability) + 2 * clamp01(ndv_factor(jk))) \div 10
             total == SeqSum([i \in DOMAIN feature.join_keys |-> c(feature.join_keys[i])])
             ttl_factor == clamp01((feature.ttl_days * ONE) \div 90)
         IN  clamp01(((total \div Max2(1, Len(feature.join_keys)))
                      * ((7 * ONE) \div 10 + (3 * ttl_factor) \div 10)) \div ONE)

\* compute_uniqueness without the support_hint branch: the cold-start estimate.
compute_uniqueness_ColdStart(feature, g, k_min) ==
    LET c(f) == IF f.is_identifier THEN ONE
                ELSE IF f.name \in DOMAIN feature.bucketizations
                THEN clamp01((feature.bucketizations[f.name] * ONE) \div 200)
                ELSE (15 * ONE) \div 100
        pressure == SeqSum([i \in DOMAIN feature.fields |-> c(feature.fields[i])])
        g_factor == [ITEM |-> ONE, CLUSTER |-> (60 * ONE) \div 100,
                     AGGREGATE |-> (25 * ONE) \div 100][g]
    IN  clamp01(((pressure \div Max2(1, Len(feature.fields))) * g_factor) \div ONE)

\* bucketizations is a function from field names to bucket counts.  Fields of the
\* model have no cardinality_hint: a field that is no identifier and has no
\* bucket count is an unknown dimension (0.15).
compute_uniqueness(feature, g, k_min) ==
    LET support == feature.support_hint[g] IN
    IF support # None /\ support[1] > 0
    THEN clamp01((ONE * k_min) \div Max2(k_min, support[1]))
    ELSE LET c(f) == IF f.is_identifier THEN ONE
                     ELSE IF f.name \in DOMAIN feature.bucketizations
                     THEN clamp01((feature.bucketizations[f.name] * ONE) \div 200)
                     ELSE (15 * ONE) \div 100
             pressure == SeqSum([i \in DOMAIN feature.fields |-> c(feature.fields[i])])
             g_factor == [ITEM |-> ONE, CLUSTER |-> (60 * ONE) \div 100,
                          AGGREGATE |-> (25 * ONE) \div 100][g]
         IN  clamp01(((pressure \div Max2(1, Len(feature.fields))) * g_factor) \div ONE)

compute_inferability(feature) ==
    LET is_sens(f) == f.is_sensitive
        sens == SelectSeq(feature.fields, is_sens)
        c(f) == IF f.name \in DOMAIN feature.bucketizations
                THEN clamp01((15 * ONE) \div 100 + (feature.bucketizations[f.name] * ONE) \div 500)
                ELSE (25 * ONE) \div 100
        base == (15 * ONE) \div 100 + ((12 * ONE) \div 100) * Min2(5, Len(sens))
                + SeqSum([i \in DOMAIN sens |-> (5 * c(sens[i])) \div 100])
        jk_amp == IF feature.join_keys = <<>> THEN 0
                  ELSE (15 * clamp01(SeqSum([i \in DOMAIN feature.join_keys |->
                                                feature.join_keys[i].stability])
                                     \div Len(feature.join_keys))) \div 100
    IN  IF sens = <<>> THEN (5 * ONE) \div 100 ELSE clamp01(base + jk_amp)

tag_weights ==
    [health |-> 50, precise_location |-> 45, financial |-> 40, children |-> 60,
     age |-> 20, gender |-> 15, location |-> 20]

compute_policy_penalty(feature) ==
    LET w(t) == IF t \in DOMAIN tag_weights THEN (tag_weights[t] * ONE) \div 100
                ELSE (10 * ONE) \div 100
    IN  clamp01(SeqSum([i \in DOMAIN feature.policy_tags |-> w(feature.policy_tags[i])]))

compute_scorecard(feature, g, th) ==
    LET L == compute_linkability(feature)
        U == compute_uniqueness(feature, g, th.k_min)
        I == compute_inferability(feature)
        R == compute_policy_penalty(feature)
    IN  [L |-> L, U |-> U, I |-> I, R |-> R,
         risk |-> Max2(0, Min2(100 * ONE,
                     th.alpha_L * L + th.alpha_U * U + th.alpha_I * I + th.alpha_R * R))]

feasible_boundary(score, b, th) == score.risk <= th.tau_boundary[b]

feasible_granularity(score, g, th) == score.risk <= th.tau_granularity[g]

\* dataclass PolicyThresholds: a frozen dataclass without __post_init__, whose
\* generated __init__ stores its arguments as they are.
PolicyThresholds(tau_boundary, tau_granularity, k_min, alpha_L, alpha_U, alpha_I, alpha_R) ==
    [status |-> "returned",
     value |-> [tau_boundary |-> tau_boundary, tau_granularity |-> tau_granularity,
                k_min |-> k_min, alpha_L |-> alpha_L, alpha_U |-> alpha_U,
                alpha_I |-> alpha_I, alpha_R |-> alpha_R]]

\* dataclass Decision: these five fields and no others.
Decision(boundary, granularity, feasible, scorecard, reason) ==
    [boundary |-> boundary, granularity |-> granularity, feasible |-> feasible,
     scorecard |-> scorecard, reason |-> reason]

PlannerConstraint(boundary, granularity, forbid_group_by_keys, forbid_joins_on, min_group_cardinality, require_pre_aggregation) ==
    [boundary |-> boundary, granularity |-> granularity,
     forbid_group_by_keys |-> forbid_group_by_keys, forbid_joins_on |-> forbid_joins_on,
     min_group_cardinality |-> min_group_cardinality,
     require_pre_aggregation |-> require_pre_aggregation]

\* "*" (all keys) is the one-element list <<"*">> here.
compile_to_planner_constraints(feature, decision, th) ==
    LET is_id(f) == f.is_identifier
        ids == SelectSeq(feature.fields, is_id)
        item_level_keys == [i \in DOMAIN ids |-> ids[i].name]
        join_keys == [i \in DOMAIN feature.join_keys |-> feature.join_keys[i].name]
        g == decision.granularity
        b == decision.boundary
    IN  IF g = "ITEM" THEN PlannerConstraint(b, g, <<>>, <<>>, 1, FALSE)
        ELSE IF g = "CLUSTER"
             THEN PlannerConstraint(b, g, item_level_keys, join_keys, Max2(th.k_min, 2), TRUE)
             ELSE PlannerConstraint(b, g, <<"*">>, <<"*">>, Max2(th.k_min, 2), TRUE)

\* dataclasses.replace(obj, **changes): a copy of obj with the changed fields,
\* TypeError when a change names something that is no field of obj.
replace(obj, changes) ==
    IF DOMAIN changes \subseteq DOMAIN obj
    THEN [status |-> "returned",
          value |-> [k \in DOMAIN obj |-> IF k \in DOMAIN changes THEN changes[k] ELSE obj[k]]]
    ELSE [status |-> "raised", error |-> "TypeError"]

attach_planner_constraints(dec_, pc) ==
    replace(dec_, [planner_constraint |-> pc, planner_constraints_json |-> pc])

boundary_order == <<"CENTRAL", "SHUFFLE", "LOCAL">>
gran_order == <<"ITEM", "CLUSTER", "AGGREGATE">>

\* The nine cells in the order the two loops of decide visit them.
SearchOrder ==
    [i \in 1..9 |-> <<boundary_order[((i - 1) \div 3) + 1], gran_order[((i - 1) % 3) + 1]>>]

FeasibleAt(feature, th, i) ==
    LET sc == compute_scorecard(feature, SearchOrder[i][2], th)
    IN  feasible_boundary(sc, SearchOrder[i][1], th)
        /\ feasible_granularity(sc, SearchOrder[i][2], th)

\* The local dec of decide: the Decision its search builds (lines 136-154).
dec(feature, th) ==
    LET feasible == {i \in 1..9 : FeasibleAt(feature, th, i)} IN
    IF feasible # {}
    THEN LET i == SetMin(feasible)
         IN  Decision(SearchOrder[i][1], SearchOrder[i][2], TRUE,
                      compute_scorecard(feature, SearchOrder[i][2], th), "feasible")
    ELSE Decision("LOCAL", "AGGREGATE", FALSE,
                  compute_scorecard(feature, SearchOrder[1][2], th),
                  "no_feasible_option_under_thresholds")

decide(feature, th) ==
    attach_planner_constraints(dec(feature, th),
                               compile_to_planner_constraints(feature, dec(feature, th), th))

\* ---- well-formed inputs of decide
FieldSpecs ==
    {[name |-> "user_id", is_sensitive |-> FALSE, is_identifier |-> TRUE],
     [name |-> "region", is_sensitive |-> FALSE, is_identifier |-> FALSE],
     [name |-> "income", is_sensitive |-> TRUE, is_identifier |-> FALSE]}

FeatureSpecs ==
    [feature_id : {"f"},
     fields : {<<>>} \cup {<<f>> : f \in FieldSpecs},
     join_keys : {<<>>, <<[name |-> "user_id", stability |-> ONE, ndv_hint |-> None]>>},
     ttl_days : {90},
     bucketizations : {<<>>},
     policy_tags : {<<>>, <<"precise_location">>, <<"demographics">>,
                    <<"precise_location", "demographics">>},
     support_hint : [Range(gran_order) -> {None, Some(4)}]]

TauValues == {(5 * 100 * ONE) \div 100, (25 * 100 * ONE) \div 100}

Thresholds ==
    {PolicyThresholds(tb, tg, k, 30, 35, 25, 10).value :
        tb \in [Range(boundary_order) -> TauValues],
        tg \in [Range(gran_order) -> TauValues],
        k \in {1, 2}}

CallDecide ==
    /\ call # <<>> /\ call.fn = "decide"
    /\ ret = NoReturn
    /\ ret' = decide(call.feature, call.th)
    /\ UNCHANGED <<call, batch, storeVars, connVars, budgetVars, gateVars>>

InitPlanner ==
    /\ call \in [fn : {"decide"}, feature : FeatureSpecs, th : Thresholds]
    /\ ret = NoReturn
    /\ batch = <<>>
    /\ StoreInit /\ ConnIdle /\ BudgetIdle /\ GateIdle

NextPlanner == CallDecide

SpecPlanner == InitPlanner /\ [][NextPlanner]_vars

Called(fn) == call # <<>> /\ call.fn = fn /\ ret # NoReturn

AllInfeasible(feature, th) == \A i \in 1..9 : ~FeasibleAt(feature, th, i)

\* C11: decide never returns feasible=true for a cell whose risk at that
\* granularity exceeds tau_boundary or tau_granularity of the cell, and when
\* all nine cells are infeasible it returns (LOCAL, AGGREGATE, feasible=false)
\* with reason no_feasible_option_under_thresholds.
C11_FeasibleOnlyWithinThresholds ==
    Called("decide") =>
        /\ (ret.status = "returned" /\ ret.value.feasible) =>
              LET sc == compute_scorecard(call.feature, ret.value.granularity, call.th)
              IN  /\ sc.risk <= call.th.tau_boundary[ret.value.boundary]
                  /\ sc.risk <= call.th.tau_granularity[ret.value.granularity]
        /\ AllInfeasible(call.feature, call.th) =>
              /\ ret.status = "returned"
              /\ ret.value.boundary = "LOCAL"
              /\ ret.value.granularity = "AGGREGATE"
              /\ ret.value.feasible = FALSE
              /\ ret.value.reason = "no_feasible_option_under_thresholds"

\* C12: decide returns a Decision (it does not raise) for every well-formed
\* feature and thresholds, its boundary and granularity in the enumerations and
\* the compiled PlannerConstraint attached.
C12_DecideReturnsDecision ==
    Called("decide") =>
        /\ ret.status = "returned"
        /\ ret.value.boundary \in Range(boundary_order)
        /\ ret.value.granularity \in Range(gran_order)
        /\ ret.value.planner_constraint =
              compile_to_planner_constraints(call.feature, dec(call.feature, call.th), call.th)

\* C13: the search of decide gives a feature tagged precise_location no CENTRAL
\* boundary and a feature tagged demographics no granularity finer than CLUSTER.
C13_TagGatesPruneSearch ==
    Called("decide") =>
        LET d == dec(call.feature, call.th) IN
        /\ "precise_location" \in Range(call.feature.policy_tags) => d.boundary # "CENTRAL"
        /\ "demographics" \in Range(call.feature.policy_tags) => d.granularity # "ITEM"

\* The granularities strictly coarser than g0, finest first, each paired with b.
CoarserAt(b, g0) ==
    LET coarser(g) == GRAN_ORDER[g] > GRAN_ORDER[g0]
        gs == SelectSeq(GRANULARITIES, coarser)
    IN  [i \in DOMAIN gs |-> <<b, gs[i]>>]

\* C14: every issued contract's allow_downgrade_to is the ordered list of the
\* strictly coarser granularities at the contract's own boundary: ITEM gives
\* [CLUSTER, AGGREGATE], CLUSTER gives [AGGREGATE], AGGREGATE gives [].
C14_DowngradeTargetsStrictlyCoarser ==
    \A r \in runtime_contracts : LET c == r.payload IN
        /\ c.allow_downgrade_to = CoarserAt(c.boundary, c.granularity)
        /\ c.granularity = "ITEM" =>
              c.allow_downgrade_to = <<<<c.boundary, "CLUSTER">>, <<c.boundary, "AGGREGATE">>>>
        /\ c.granularity = "CLUSTER" => c.allow_downgrade_to = <<<<c.boundary, "AGGREGATE">>>>
        /\ c.granularity = "AGGREGATE" => c.allow_downgrade_to = <<>>

C14_Witness ==
    /\ \E r \in runtime_contracts : LET c == r.payload IN
          c.granularity = "ITEM" /\ Len(c.allow_downgrade_to) = 2
    /\ \E r \in runtime_contracts : LET c == r.payload IN
          c.granularity = "CLUSTER" /\ Len(c.allow_downgrade_to) = 1

\* ======================================================================
\* BudgetLedger queried directly (src/src/ppds/budget.py): events of any day
\* are committed in any order, then window_spend or adaptive_eps is called.

\* A variant of adaptive_eps without the floor at 0.0.
adaptive_eps_NoFloor(led, fid, window_days, asof_, eps_cap, planned_releases_left) ==
    IF planned_releases_left <= 0 THEN <<0, 1>>
    ELSE <<eps_cap - window_spend(led, fid, window_days, asof_)[1], planned_releases_left>>

\* BudgetLedger.adaptive_eps; the quotient remain / planned_releases_left is the
\* fraction <<numerator, denominator>>, and 0.0 is <<0, 1>>.
adaptive_eps(led, fid, window_days, asof_, eps_cap, planned_releases_left) ==
    LET eps == window_spend(led, fid, window_days, asof_)[1]
        remain == Max2(0, eps_cap - eps)
    IN  IF planned_releases_left <= 0 THEN <<0, 1>>
        ELSE <<remain, planned_releases_left>>

PlannedReleases == -1..2

LedgerCommit ==
    /\ ret = NoReturn
    /\ LedgerSize < MaxEvents
    /\ \E fid \in FeatureIds, day \in 0..MaxDay, e \in 1..MaxSpend, d \in {0, 1} :
          ledger' = commit(ledger, SpendEvent(fid, day, e, d))
    /\ UNCHANGED <<asof, caps, pipeline, storeVars, connVars, gateVars, libVars>>

CallWindowSpend ==
    /\ ret = NoReturn
    /\ \E fid \in IssuedFeatures, w \in 1..MaxWindow, a \in 0..MaxDay :
          /\ call' = [fn |-> "window_spend", feature_id |-> fid, window_days |-> w, asof |-> a]
          /\ ret' = [status |-> "returned", value |-> window_spend(ledger, fid, w, a)]
    /\ UNCHANGED <<batch, budgetVars, storeVars, connVars, gateVars>>

CallAdaptiveEps ==
    /\ ret = NoReturn
    /\ \E fid \in IssuedFeatures, w \in 1..MaxWindow, a \in 0..MaxDay,
          cap \in 0..MaxCap, n \in PlannedReleases :
          /\ call' = [fn |-> "adaptive_eps", feature_id |-> fid, window_days |-> w, asof |-> a,
                      eps_cap |-> cap, planned_releases_left |-> n]
          /\ ret' = [status |-> "returned", value |-> adaptive_eps(ledger, fid, w, a, cap, n)]
    /\ UNCHANGED <<batch, budgetVars, storeVars, connVars, gateVars>>

InitLedger == StoreInit /\ ConnIdle /\ BudgetIdle /\ GateIdle /\ LibIdle

NextLedger == LedgerCommit \/ CallWindowSpend \/ CallAdaptiveEps

SpecLedger == InitLedger /\ [][NextLedger]_vars

\* The sum of column col over the events of fid at the positions S.
RECURSIVE SumAt(_, _, _)
SumAt(fid, S, col) ==
    IF S = {} THEN 0
    ELSE LET i == CHOOSE j \in S : TRUE
         IN  ledger[fid][i][col] + SumAt(fid, S \ {i}, col)

\* The positions of the events of fid whose day is in [asof_ - window_days + 1, asof_].
InWindow(fid, window_days, asof_) ==
    {i \in DOMAIN EventsOf(ledger, fid) :
        ledger[fid][i].day \in (asof_ - window_days + 1)..asof_}

\* C15: window_spend returns the sums of epsilon and of delta over exactly the
\* events of the given feature whose day is in [asof - window_days + 1, asof];
\* the call leaves the ledger unchanged.
C15_WindowSpendSumsWindow ==
    /\ [](Called("window_spend") =>
            ret.value = << SumAt(call.feature_id,
                                 InWindow(call.feature_id, call.window_days, call.asof), "epsilon"),
                           SumAt(call.feature_id,
                                 InWindow(call.feature_id, call.window_days, call.asof), "delta") >>)
    /\ [][CallWindowSpend => ledger' = ledger]_vars

\* A call whose ledger holds an event of the feature inside the window, one of
\* the feature outside it, or one of another feature.
C15_Witness ==
    /\ Called("window_spend")
    /\ InWindow(call.feature_id, call.window_days, call.asof) # {}
    /\ \/ InWindow(call.feature_id, call.window_days, call.asof)
              # DOMAIN EventsOf(ledger, call.feature_id)
       \/ \E fid \in DOMAIN ledger : fid # call.feature_id
    /\ ret.value[1] > 0

\* C16: adaptive_eps returns max(0, eps_cap - window spend) / planned_releases_left
\* when planned_releases_left > 0 and 0 when it is <= 0; the result is never
\* negative, and it is strictly smaller than the remaining budget when some
\* budget remains and more than one release is planned.
C16_AdaptiveEpsSplitsRemainder ==
    Called("adaptive_eps") =>
        LET spent == SumAt(call.feature_id,
                           InWindow(call.feature_id, call.window_days, call.asof), "epsilon")
            remaining == IF call.eps_cap > spent THEN call.eps_cap - spent ELSE 0
            num == ret.value[1]
            den == ret.value[2]
        IN  /\ den > 0 /\ num >= 0
            /\ call.planned_releases_left > 0 => num * call.planned_releases_left = remaining * den
            /\ call.planned_releases_left <= 0 => num = 0
            /\ (remaining > 0 /\ call.planned_releases_left > 1) => num < remaining * den

C16_Witness ==
    /\ Called("adaptive_eps")
    /\ call.planned_releases_left > 1
    /\ EventsOf(ledger, call.feature_id) # <<>>
    /\ ret.value[1] > 0

\* ======================================================================
\* Plan fingerprints (src/src/ppds/plan_contract.py, src/src/ppds/cli.py).
\* A JSON value is a scalar [s |-> text] or an object [d |-> list of <<key, value>>]
\* in insertion order (a Python dict).
Str(text) == [s |-> text]
Obj(pairs) == [d |-> pairs]

\* The keys of the model in the order json.dumps(sort_keys=True) gives them.
KeyOrder ==
    <<"a", "b", "boundary", "created_at", "decision", "decisions", "feasible", "from",
      "granularity", "input_fingerprint", "plan_fingerprint", "planner_constraints_json",
      "policy_hash", "reason", "rejection_reasons", "schema_version", "scorecard",
      "select", "status">>

\* _canonical_json_bytes: json.dumps(obj, sort_keys=True, separators=(",", ":")),
\* the keys of every object sorted, at every depth.
RECURSIVE canonical_json_bytes(_)
canonical_json_bytes(v) ==
    IF "d" \in DOMAIN v
    THEN LET rank(k) == CHOOSE i \in DOMAIN KeyOrder : KeyOrder[i] = k
             before(x, y) == rank(x[1]) < rank(y[1])
         IN  Obj(SortSeq([i \in DOMAIN v.d |-> <<v.d[i][1], canonical_json_bytes(v.d[i][2])>>],
                         before))
    ELSE v

\* hashlib.sha256(_canonical_json_bytes(obj)).hexdigest(), taken as collision-free.
sha256_hex(obj) == [sha256 |-> canonical_json_bytes(obj)]

\* dict.pop(key, None) on a copy, and dict[key] = value for a new key.
pop(obj, key) == LET keep(kv) == kv[1] # key IN Obj(SelectSeq(obj.d, keep))
put(obj, key, value) == Obj(Append(obj.d, <<key, value>>))
get(obj, key) == obj.d[CHOOSE i \in DOMAIN obj.d : obj.d[i][1] = key][2]

compute_input_fingerprint(input_obj) == sha256_hex(input_obj)

\* plan_contract.compute_plan_fingerprint
compute_plan_fingerprint(plan_dict) ==
    sha256_hex(pop(pop(plan_dict, "plan_fingerprint"), "created_at"))

\* cli._plan_fingerprint
plan_fingerprint(plan_obj) == sha256_hex(pop(plan_obj, "plan_fingerprint"))

\* PPDSPlan.build(...).to_dict(), with the arguments a
PPDSPlan_build_to_dict(a) ==
    LET d == Obj(<< <<"schema_version", Str("ppds.plan")>>,
                    <<"created_at", Str(a.created_at)>>,
                    <<"policy_hash", Str(a.policy_hash)>>,
                    <<"input_fingerprint", compute_input_fingerprint(a.input_obj)>>,
                    <<"status", Str(a.status)>>,
                    <<"decisions", a.decisions>>,
                    <<"rejection_reasons", Str("[]")>> >>)
    IN  put(d, "plan_fingerprint", compute_plan_fingerprint(d))

\* cmd_plan from the Decision on (lines 276-290): the plan object it writes for
\* the policy, the features object a.input_obj and a Decision of boundary a.boundary.
cmd_plan_obj(a) ==
    LET plan_obj == Obj(<< <<"schema_version", Str("1")>>,
                           <<"created_at", Str(a.created_at)>>,
                           <<"policy_hash", sha256_hex(Str(a.policy_hash))>>,
                           <<"input_fingerprint", sha256_hex(a.input_obj)>>,
                           <<"decision", Obj(<< <<"boundary", Str(a.boundary)>>,
                                                <<"granularity", Str("ITEM")>>,
                                                <<"feasible", Str(a.status)>>,
                                                <<"reason", Str("feasible")>> >>)>>,
                           <<"planner_constraints_json", Str("null")>>,
                           <<"scorecard", Str("scorecard")>> >>)
    IN  put(plan_obj, "plan_fingerprint", plan_fingerprint(plan_obj))

\* The two insertion orders of a two-key object.
Orders(k1, v1, k2, v2) == {Obj(<< <<k1, v1>>, <<k2, v2>> >>), Obj(<< <<k2, v2>>, <<k1, v1>> >>)}

PlanArgs ==
    [created_at : {"t1", "t2"}, policy_hash : {"h1"}, status : {"accepted"},
     boundary : {"CENTRAL", "LOCAL"},
     input_obj : UNION {Orders("a", Str(x), "b", Str("2")) : x \in {"1", "3"}},
     decisions : UNION {Orders("from", Str(x), "select", Str("*")) : x \in {"t", "u"}}]

CallBuild ==
    /\ call # <<>> /\ call.fn = "PPDSPlan.build" /\ ret = NoReturn
    /\ ret' = [status |-> "returned",
               value |-> <<PPDSPlan_build_to_dict(call.a), PPDSPlan_build_to_dict(call.b)>>]
    /\ UNCHANGED <<call, batch, storeVars, connVars, budgetVars, gateVars>>

CallCmdPlan ==
    /\ call # <<>> /\ call.fn = "cmd_plan" /\ ret = NoReturn
    /\ ret' = [status |-> "returned", value |-> <<cmd_plan_obj(call.a), cmd_plan_obj(call.b)>>]
    /\ UNCHANGED <<call, batch, storeVars, connVars, budgetVars, gateVars>>

InitFingerprint ==
    /\ call \in [fn : {"PPDSPlan.build", "cmd_plan"}, a : PlanArgs, b : PlanArgs]
    /\ ret = NoReturn
    /\ batch = <<>>
    /\ StoreInit /\ ConnIdle /\ BudgetIdle /\ GateIdle

NextFingerprint == CallBuild \/ CallCmdPlan

SpecFingerprint == InitFingerprint /\ [][NextFingerprint]_vars

\* What an object says, whatever the order of its keys.
RECURSIVE content(_)
content(v) ==
    IF "d" \in DOMAIN v
    THEN [k \in {v.d[i][1] : i \in DOMAIN v.d} |-> content(get(v, k))]
    ELSE v

\* The two calls differ at most in created_at and in the order of the keys of
\* their input objects.
SameButTimeAndOrder ==
    /\ call.a.policy_hash = call.b.policy_hash
    /\ call.a.status = call.b.status
    /\ call.a.boundary = call.b.boundary
    /\ content(call.a.input_obj) = content(call.b.input_obj)
    /\ content(call.a.decisions) = content(call.b.decisions)

SameFingerprints ==
    /\ get(ret.value[1], "plan_fingerprint") = get(ret.value[2], "plan_fingerprint")
    /\ get(ret.value[1], "input_fingerprint") = get(ret.value[2], "input_fingerprint")

\* C17: the plan_fingerprint of a plan depends neither on created_at nor on the
\* key order of the input objects: two plans that differ only in those have the
\* same fingerprint, from PPDSPlan.build/to_dict and from the CLI plan command.
C17_FingerprintIgnoresTimeAndOrder ==
    ((Called("PPDSPlan.build") \/ Called("cmd_plan")) /\ SameButTimeAndOrder)
        => SameFingerprints

\* The part of C17 that is about PPDSPlan.build/to_dict alone.
C17_BuildFingerprintIgnoresTimeAndOrder ==
    (Called("PPDSPlan.build") /\ SameButTimeAndOrder) => SameFingerprints

\* ======================================================================
\* Construction of PolicyThresholds (src/src/ppds/types.py).
ThresholdArgs ==
    [fn : {"PolicyThresholds"},
     tau_boundary : {[b \in Range(boundary_order) |-> 50 * ONE]},
     tau_granularity : {[g \in Range(gran_order) |-> 50 * ONE]},
     k_min : {-5, 0, 1, 100},
     alpha_L : {-10, 10, 30, 50}, alpha_U : {20, 35, 45, 50},
     alpha_I : {25, 30, 35, 50}, alpha_R : {10, 30, 40, 50}]

CallPolicyThresholds ==
    /\ call # <<>> /\ call.fn = "PolicyThresholds" /\ ret = NoReturn
    /\ ret' = PolicyThresholds(call.tau_boundary, call.tau_granularity, call.k_min,
                               call.alpha_L, call.alpha_U, call.alpha_I, call.alpha_R)
    /\ UNCHANGED <<call, batch, storeVars, connVars, budgetVars, gateVars>>

InitThresholds ==
    /\ call \in ThresholdArgs
    /\ ret = NoReturn
    /\ batch = <<>>
    /\ StoreInit /\ ConnIdle /\ BudgetIdle /\ GateIdle

NextThresholds == CallPolicyThresholds

SpecThresholds == InitThresholds /\ [][NextThresholds]_vars

\* C18: constructing a PolicyThresholds validates it: the four weights sum to
\* 1.0, every weight is non-negative and k_min >= 1; a PolicyThresholds value
\* that breaks one of these is never produced.
C18_ThresholdsValidated ==
    (Called("PolicyThresholds") /\ ret.status = "returned") =>
        /\ ret.value.alpha_L + ret.value.alpha_U + ret.value.alpha_I + ret.value.alpha_R = 100
        /\ ret.value.alpha_L >= 0 /\ ret.value.alpha_U >= 0
        /\ ret.value.alpha_I >= 0 /\ ret.value.alpha_R >= 0
        /\ ret.value.k_min >= 1

\* ======================================================================
\* The batch command (src/src/ppds/cli.py, cmd_run_batch) from its loop over the
\* feature files on, and the exception class it catches (src/src/ppds/errors.py).
MaxFiles == 3

ExitCode ==
    [OK |-> 0, CONFIG_INVALID |-> 10, POLICY_REJECTED |-> 20, RUNTIME_ERROR |-> 30,
     DEPENDENCY_ERROR |-> 40, INTERNAL_ERROR |-> 50]

PPDSProblem(code, category, message) ==
    [code |-> code, category |-> category, message |-> message]

\* PPDSException.__init__ passes problem.message to Exception.__init__ and stores
\* nothing else: the exception object has the attribute args alone.
PPDSException(problem, exit_code) == [args |-> <<problem.message>>]

\* What a feature file holds: text that is no JSON, an object without the key
\* "fields", an object whose fields are no objects, or a well-formed feature spec.
FeatureFiles == {"unparsable", "missing_keys", "bad_fields", "well_formed"}

\* The feature of a well-formed file, and _to_thresholds of the policy file.
BatchFeature ==
    [feature_id |-> "f", fields |-> <<>>, join_keys |-> <<>>, ttl_days |-> 90,
     bucketizations |-> <<>>, policy_tags |-> <<>>, support_hint |-> [g \in Range(gran_order) |-> None]]
to_thresholds ==
    PolicyThresholds([LOCAL |-> 90 * ONE, SHUFFLE |-> 70 * ONE, CENTRAL |-> 55 * ONE],
                     [ITEM |-> 45 * ONE, CLUSTER |-> 60 * ONE, AGGREGATE |-> 75 * ONE],
                     1, 30, 35, 25, 10).value

\* The try block of the loop for one feature file (lines 522-575).
try_feature_file(file) ==
    IF file = "unparsable"
    THEN [status |-> "raised", error |-> "PPDSException",
          e |-> PPDSException(PPDSProblem("PPDS_CONFIG_PARSE_ERROR", "config",
                                          "Failed to parse JSON"), ExitCode.CONFIG_INVALID)]
    ELSE IF file = "missing_keys"
    THEN [status |-> "raised", error |-> "PPDSException",
          e |-> PPDSException(PPDSProblem("PPDS_CONFIG_INVALID", "config",
                                          "Invalid policy/features configuration"),
                              ExitCode.CONFIG_INVALID)]
    ELSE IF file = "bad_fields"
    THEN [status |-> "raised", error |-> "ValueError"]
    ELSE LET d == decide(BatchFeature, to_thresholds)
         IN  IF d.status = "raised" THEN d
             ELSE [status |-> "returned",
                   value |-> [status |-> IF d.value.feasible THEN "accepted" ELSE "rejected"]]

\* One iteration of the loop: the try block and the two except clauses.
ProcessFile ==
    /\ batch # <<>> /\ batch.pc = "loop" /\ batch.i <= Len(batch.files)
    /\ LET out == try_feature_file(batch.files[batch.i])
           next_pc == IF batch.fail_fast THEN "index" ELSE "loop"
       IN  batch' =
             IF out.status = "returned"
             THEN [batch EXCEPT !.results = Append(@, out.value), !.i = @ + 1]
             ELSE IF out.error = "PPDSException"
             THEN IF {"problem", "exit_code"} \subseteq DOMAIN out.e
                  THEN [batch EXCEPT !.any_failed = TRUE,
                                     !.results = Append(@, [status |-> "error",
                                                            exit_code |-> out.e.exit_code]),
                                     !.i = @ + 1, !.pc = next_pc]
                  ELSE [batch EXCEPT !.any_failed = TRUE, !.pc = "raised",
                                     !.error = "AttributeError"]
             ELSE [batch EXCEPT !.any_failed = TRUE,
                                !.results = Append(@, [status |-> "error",
                                                       exit_code |-> ExitCode.INTERNAL_ERROR]),
                                !.i = @ + 1, !.pc = next_pc]
    /\ UNCHANGED <<call, ret, storeVars, connVars, budgetVars, gateVars>>

\* After the loop: index.json is written and the command returns.
WriteIndex ==
    /\ batch # <<>>
    /\ batch.pc = "index" \/ (batch.pc = "loop" /\ batch.i > Len(batch.files))
    /\ batch' = [batch EXCEPT !.index = Some([results |-> batch.results,
                                               ok |-> ~batch.any_failed]),
                              !.pc = "returned",
                              !.rc = IF batch.any_failed THEN ExitCode.RUNTIME_ERROR
                                     ELSE ExitCode.OK]
    /\ UNCHANGED <<call, ret, storeVars, connVars, budgetVars, gateVars>>

InitBatch ==
    /\ batch \in [files : UNION {[1..n -> FeatureFiles] : n \in 1..MaxFiles},
                  fail_fast : BOOLEAN, i : {1}, results : {<<>>}, any_failed : {FALSE},
                  index : {None}, pc : {"loop"}, error : {"none"}, rc : {ExitCode.OK}]
    /\ call = <<>>
    /\ ret = NoReturn
    /\ StoreInit /\ ConnIdle /\ BudgetIdle /\ GateIdle

NextBatch == ProcessFile \/ WriteIndex

SpecBatch == InitBatch /\ [][NextBatch]_vars

\* C19: in cmd_run_batch (without --fail-fast) an error raised while one
\* feature file is processed, a PPDSException or any other exception, does not
\* abort the batch: the command returns, the index is written, every file has a
\* result, the file in error has one of status "error", and ok is true only if
\* no file was in error.
C19_BatchSurvivesFeatureErrors ==
    (batch # <<>> /\ ~batch.fail_fast /\ batch.pc \in {"returned", "raised"}) =>
        /\ batch.pc = "returned"
        /\ batch.index # None
        /\ Len(batch.index[1].results) = Len(batch.files)
        /\ \A i \in DOMAIN batch.files :
              try_feature_file(batch.files[i]).status = "raised"
                  => batch.index[1].results[i].status = "error"
        /\ batch.index[1].ok =
              (\A i \in DOMAIN batch.files :
                  try_feature_file(batch.files[i]).status # "raised")

\* The part of C19 that is about exceptions other than PPDSException.
C19_OtherExceptionsRecorded ==
    (batch # <<>> /\ ~batch.fail_fast /\ batch.pc \in {"returned", "raised"}
        /\ \A i \in DOMAIN batch.files : batch.files[i] \in {"bad_fields", "well_formed"}) =>
        /\ batch.pc = "returned"
        /\ Len(batch.index[1].results) = Len(batch.files)
        /\ \A i \in DOMAIN batch.files : batch.index[1].results[i].status = "error"
        /\ batch.index[1].ok = FALSE

\* ======================================================================
\* The audit trail of the runtime plane (Runtime.ingest_signal, Runtime.materialize).

\* The event types of the audit rows a step appends for feature fid, in order.
NewEventsOf(fid) ==
    LET mine(e) == e.feature_id = fid
        es == SelectSeq(NewEntries, mine)
    IN  [i \in DOMAIN es |-> es[i].event_type]

\* materialize(boundary, window_id) reaches an outcome for fid: the feature has an
\* active contract at the boundary and staged rows of the window.
HasOutcome(fid, boundary, window_id) ==
    LET c == read_active_contract(runtime_contracts, fid)
    IN  /\ c # NoContract
        /\ c.boundary = boundary
        /\ StagedFor(fid, boundary, window_id, c.granularity) # {}

AppendOnly == SubSeq(audit_log', 1, Len(audit_log)) = audit_log

\* The step appends exactly one audit entry, a REJECT or an INGEST of fid.
OneIngestEntry(fid) ==
    /\ Len(NewEntries) = 1
    /\ NewEntries[1].feature_id = fid
    /\ NewEntries[1].event_type \in {"REJECT", "INGEST"}

OutcomeEvents(fid, boundary, window_id) ==
    IF ~HasOutcome(fid, boundary, window_id) THEN <<>>
    ELSE IF ~BelowMinSupport(fid, boundary, window_id) THEN <<"MATERIALIZE">>
    ELSE IF read_active_contract(runtime_contracts, fid).allow_downgrade_to = <<>>
         THEN <<"BLOCK">>
         ELSE <<"DOWNGRADE", "DOWNGRADE_NOTICE", "MATERIALIZE">>

MaxSupport == 3
\* k_min runs over 1..MaxKMin.
MaxKMin == 2
\* The caller makes at most MaxCalls calls.
MaxCalls == 2

\* JoinKeySpec("uid", stability=0.95, ndv_hint=1_000_000)
StableJoinKey == [name |-> "uid", stability |-> (95 * ONE) \div 100, ndv_hint |-> Some(1000000)]

JoinKeySpecs ==
    {[name |-> "user_id", stability |-> ONE, ndv_hint |-> Some(1000000)],
     [name |-> "session", stability |-> ONE \div 2, ndv_hint |-> None]}

ScoreFeatures ==
    [feature_id : {"f"},
     fields : {<<f>> : f \in {x \in FieldSpecs : ~x.is_identifier}},
     join_keys : {<<>>} \cup {<<jk>> : jk \in JoinKeySpecs},
     ttl_days : {30, 90},
     bucketizations : {<<>>},
     policy_tags : {<<>>},
     support_hint : [Range(gran_order) -> {None} \cup {Some(s) : s \in 1..MaxSupport}]]

ScoreThresholds ==
    {PolicyThresholds([b \in Range(boundary_order) |-> 50 * ONE],
                      [g \in Range(gran_order) |-> 50 * ONE], k, 30, 35, 25, 10).value :
        k \in 1..MaxKMin}

\* dataclasses.replace(feature, join_keys=feature.join_keys + [jk])
with_join_key(feature, jk) == [feature EXCEPT !.join_keys = Append(@, jk)]

\* The arguments the caller passes next: any feature at any granularity first,
\* then the same feature at another granularity, or at the same granularity
\* with the stable join key added.
NextArgs ==
    IF call.args = <<>>
    THEN [feature : ScoreFeatures, g : Range(gran_order)]
    ELSE LET a == Last(call.args)
         IN  {[a EXCEPT !.g = g] : g \in Range(gran_order) \ {a.g}}
             \cup {[a EXCEPT !.feature = with_join_key(a.feature, StableJoinKey)]}

CallComputeScorecard ==
    /\ call # <<>> /\ call.fn = "compute_scorecard"
    /\ Len(call.args) < MaxCalls
    /\ \E a \in NextArgs :
          /\ call' = [call EXCEPT !.args = Append(@, a)]
          /\ ret' = [status |-> "returned",
                     value |-> (IF ret = NoReturn THEN <<>> ELSE ret.value)
                               \o <<compute_scorecard(a.feature, a.g, call.th)>>]
    /\ UNCHANGED <<batch, storeVars, connVars, budgetVars, gateVars>>

InitScore ==
    /\ call \in [fn : {"compute_scorecard"}, th : ScoreThresholds, args : {<<>>}]
    /\ ret = NoReturn
    /\ batch = <<>>
    /\ StoreInit /\ ConnIdle /\ BudgetIdle /\ GateIdle

NextScore == CallComputeScorecard

SpecScore == InitScore /\ [][NextScore]_vars

\* The calls made so far: the pairs of positions (i, j) of two of them.
ScoredPairs ==
    IF ret = NoReturn THEN {}
    ELSE {p \in (DOMAIN ret.value) \X (DOMAIN ret.value) : p[1] # p[2]}

\* support_hint of the feature is known at all three granularities, with
\* ITEM < CLUSTER < AGGREGATE.
HintsIncrease(feature) ==
    /\ \A g \in Range(gran_order) : feature.support_hint[g] # None
    /\ feature.support_hint["ITEM"][1] < feature.support_hint["CLUSTER"][1]
    /\ feature.support_hint["CLUSTER"][1] < feature.support_hint["AGGREGATE"][1]

\* Calls i and j score one feature, with increasing hints, at granularity
\* fine and at granularity coarse.
SameFeatureAt(i, j, fine, coarse) ==
    /\ call.args[i].feature = call.args[j].feature
    /\ HintsIncrease(call.args[i].feature)
    /\ call.args[i].g = fine
    /\ call.args[j].g = coarse

\* C21 as stated: with support_hint known at all three granularities and
\* ITEM < CLUSTER < AGGREGATE, for any k_min >= 1, U is strictly larger at
\* ITEM than at CLUSTER and strictly larger at CLUSTER than at AGGREGATE.
C21_UniquenessStrictlyDecreases ==
    \A p \in ScoredPairs :
        (SameFeatureAt(p[1], p[2], "ITEM", "CLUSTER")
         \/ SameFeatureAt(p[1], p[2], "CLUSTER", "AGGREGATE"))
        => ret.value[p[1]].U > ret.value[p[2]].U

\* C21 amended: with support_hint values ITEM < CLUSTER < AGGREGATE
\* and any k_min >= 1, U never increases from a granularity to the next coarser
\* one, and it is strictly larger at the finer of the two exactly when the
\* coarser one's support exceeds k_min (below that, U is 1.0 at both).
C21_UniquenessDecreasesAboveKMin ==
    \A p \in ScoredPairs :
        (SameFeatureAt(p[1], p[2], "ITEM", "CLUSTER")
         \/ SameFeatureAt(p[1], p[2], "CLUSTER", "AGGREGATE"))
        => LET coarse == call.args[p[2]].feature.support_hint[call.args[p[2]].g][1]
           IN  /\ ret.value[p[1]].U >= ret.value[p[2]].U
               /\ (ret.value[p[1]].U > ret.value[p[2]].U) <=> (coarse > call.th.k_min)

\* U was computed at ITEM and at CLUSTER for a feature with increasing
\* hints, with the CLUSTER support above k_min and U strictly smaller.
C21_Witness ==
    \E p \in ScoredPairs :
        /\ SameFeatureAt(p[1], p[2], "ITEM", "CLUSTER")
        /\ call.args[p[1]].feature.support_hint["CLUSTER"][1] > call.th.k_min
        /\ ret.value[p[1]].U > ret.value[p[2]].U

\* Call j scores the feature of call i with the stable join key added, at the
\* same granularity.
JoinKeyAdded(i, j) ==
    /\ call.args[j].feature = with_join_key(call.args[i].feature, StableJoinKey)
    /\ call.args[j].g = call.args[i].g

\* C22 as stated: for a fixed granularity and fixed thresholds, adding to any
\* feature a join key with stability 0.95 and a large ndv_hint strictly
\* increases L and does not decrease the aggregate risk.
C22_JoinKeyRaisesLinkability ==
    \A p \in ScoredPairs :
        JoinKeyAdded(p[1], p[2])
        => /\ ret.value[p[2]].L > ret.value[p[1]].L
           /\ ret.value[p[2]].risk >= ret.value[p[1]].risk

\* C22 amended: for a fixed granularity and fixed thresholds, adding a join key
\* with stability 0.95 and a large ndv_hint to a feature that has no join key
\* strictly increases L and does not decrease the aggregate risk.
C22_FirstJoinKeyRaisesLinkability ==
    \A p \in ScoredPairs :
        (JoinKeyAdded(p[1], p[2]) /\ call.args[p[1]].feature.join_keys = <<>>)
        => /\ ret.value[p[2]].L > ret.value[p[1]].L
           /\ ret.value[p[2]].risk >= ret.value[p[1]].risk

\* A feature without join keys was scored, then scored again with the stable
\* join key added, and L went up from 0.
C22_Witness ==
    \E p \in ScoredPairs :
        /\ JoinKeyAdded(p[1], p[2])
        /\ call.args[p[1]].feature.join_keys = <<>>
        /\ ret.value[p[1]].L = 0
        /\ ret.value[p[2]].L > 0

MaxScoringAudit == 3

\* The PolicyConfig of main(), min_support_threshold being the model's.
policy ==
    [w_link |-> 25, w_uniq |-> 25, w_infer |-> 25, w_policy |-> 25,
     a_id |-> 50, a_join |-> 30, a_ttl |-> 20, deg_max |-> 10,
     retention_days_max |-> 365,
     band_mid |-> 45 * ONE, band_high |-> 75 * ONE,
     infer_default |-> (20 * ONE) \div 100,
     tau_lps |-> 10 * ONE,
     central_sigma |-> central_sigma,
     min_support_threshold |-> MinSupportThreshold]

\* math.log(x) for x in 1..12, to four decimals.
ln == <<0, 6931, 10986, 13863, 16094, 17918, 19459, 20794, 21972, 23026, 23979, 24849>>

\* Store.get_feature: the catalog row of the feature.
get_feature_def(fid) ==
    LET i == CHOOSE j \in DOMAIN catalog_features : catalog_features[j].feature_id = fid
    IN  catalog_features[i]

\* Store.get_stats: the snapshot, or None.
get_stats(fid, window_id, granularity) ==
    LET rows == {s \in feature_stats_ts : /\ s.feature_id = fid
                                          /\ s.window_id = window_id
                                          /\ s.granularity = granularity}
    IN  IF rows = {} THEN None ELSE Some(CHOOSE s \in rows : TRUE)

\* Controller._best_stats: the first snapshot in the order CLUSTER, ITEM, AGGREGATE.
best_stats(fid, window_id) ==
    LET order == <<"CLUSTER", "ITEM", "AGGREGATE">>
        have == {i \in DOMAIN order : get_stats(fid, window_id, order[i]) # None}
    IN  IF have = {} THEN None ELSE get_stats(fid, window_id, order[SetMin(have)])

compute_linkability_of(f) ==
    LET id_flag == IF "user_id" \in Range(f.join_keys) \/ "device_id" \in Range(f.join_keys)
                   THEN ONE ELSE 0
        deg == Len(f.join_keys)
        n_join == Min2(ONE, (ln[1 + deg] * ONE) \div ln[1 + Max2(1, policy.deg_max)])
        n_ttl == Min2(ONE, (f.retention_days * ONE) \div Max2(1, policy.retention_days_max))
    IN  clamp01((policy.a_id * id_flag + policy.a_join * n_join + policy.a_ttl * n_ttl) \div 100)

compute_uniqueness_of(w1) ==
    IF w1 = None THEN ONE
    ELSE IF w1[1].n_obs <= 0 THEN ONE
    ELSE clamp01(ONE - (ln[1 + w1[1].min_support_est] * ONE)
                       \div ln[1 + Max2(1, w1[1].n_obs)])

\* auc is a fixed-point number in which 1.0 is ONE.
auc_to_risk(auc) == clamp01(Max2(0, 2 * (auc - ONE \div 2)))

RECURSIVE SeqMax(_)
SeqMax(q) == IF q = <<>> THEN 0 ELSE Max2(q[1], SeqMax(Tail(q)))

\* probe is None or Some(metrics), metrics being the AUC values of the probe.
compute_inferability_of(probe) ==
    IF probe = None THEN policy.infer_default
    ELSE SeqMax([i \in DOMAIN probe[1] |-> auc_to_risk(probe[1][i])])

\* Controller._compute_policy_penalty: the soft penalty s and the hard constraints.
compute_policy_penalty_of(f) ==
    [s |-> IF f.sensitivity_tags # {} THEN ONE \div 2 ELSE 0,
     hard |-> [deny_boundaries |-> IF "precise_location" \in f.sensitivity_tags
                                   THEN {"CENTRAL"} ELSE {},
               min_granularity |-> IF "demographics" \in f.sensitivity_tags
                                   THEN Some("CLUSTER") ELSE None]]

\* A variant of _derive_admissible_set that takes the band alone: it applies
\* neither the hard boundary denies nor the hard minimum granularity.
derive_admissible_set_BandOnly(f, lps_total, hard) ==
    LET min_g == IF lps_total >= policy.band_high THEN "AGGREGATE"
                 ELSE IF lps_total >= policy.band_mid THEN "CLUSTER"
                 ELSE "ITEM"
    IN  <<{c \in f.boundary_capabilities \X f.granularity_candidates : g_at_least(c[2], min_g)},
          min_g>>

\* Controller._derive_admissible_set: <<candidates, min_g>>.
derive_admissible_set(f, lps_total, hard) ==
    LET base == f.boundary_capabilities \X f.granularity_candidates
        allowed == {c \in base : c[1] \notin hard.deny_boundaries}
        min_g == IF hard.min_granularity # None THEN hard.min_granularity[1]
                 ELSE IF lps_total >= policy.band_high THEN "AGGREGATE"
                 ELSE IF lps_total >= policy.band_mid THEN "CLUSTER"
                 ELSE "ITEM"
    IN  <<{c \in allowed : g_at_least(c[2], min_g)}, min_g>>

\* sorted(list(cells)): tuples of strings in lexicographic order.
SortedCells ==
    << <<"CENTRAL", "AGGREGATE">>, <<"CENTRAL", "CLUSTER">>, <<"CENTRAL", "ITEM">>,
       <<"LOCAL", "AGGREGATE">>, <<"LOCAL", "CLUSTER">>, <<"LOCAL", "ITEM">>,
       <<"SHUFFLE", "AGGREGATE">>, <<"SHUFFLE", "CLUSTER">>, <<"SHUFFLE", "ITEM">> >>
sorted_cells(cells) ==
    LET in_cells(c) == c \in cells IN SelectSeq(SortedCells, in_cells)

get_probe(fid) == IF fid \in DOMAIN probe_results THEN Some(probe_results[fid]) ELSE None

\* The LPSScorecard run_lps_scoring_batch builds for one feature (its run_id,
\* versions and reason codes left out).
LPSScorecard(fid) ==
    LET f == get_feature_def(fid)
        s_link == compute_linkability_of(f)
        s_uniq == compute_uniqueness_of(best_stats(fid, "W1"))
        s_infer == compute_inferability_of(get_probe(fid))
        pen == compute_policy_penalty_of(f)
        lps_total == policy.w_link * s_link + policy.w_uniq * s_uniq
                     + policy.w_infer * s_infer + policy.w_policy * pen.s
        adm == derive_admissible_set(f, lps_total, pen.hard)
    IN  [feature_id |-> fid, s_link |-> s_link, s_uniq |-> s_uniq, s_infer |-> s_infer,
         s_policy |-> pen.s, lps_total |-> lps_total,
         admissible_set |-> sorted_cells(adm[1]), min_granularity |-> adm[2],
         computed_at |-> now]

\* Store.read_latest_lps: ORDER BY computed_at DESC LIMIT 1, or None.
read_latest_lps(tbl, fid) ==
    LET rows == {r \in tbl : r.feature_id = fid}
    IN  IF rows = {} THEN None
        ELSE Some(CHOOSE r \in rows : \A o \in rows : o.computed_at <= r.computed_at)

\* How a batch of the controller ended: it returned, or an exception left it.
BatchOutcome(st) ==
    IF st.raised = "none" THEN [status |-> "returned"]
    ELSE [status |-> "raised", error |-> st.raised]

\* The loop of run_lps_scoring_batch over feature_ids from position i on: st is
\* the tables so far.  append_lps_scorecard fails (IntegrityError) when the
\* feature already has a scorecard with this computed_at, and the batch ends there.
RECURSIVE ScoringLoop(_, _, _)
ScoringLoop(feature_ids, i, st) ==
    IF i > Len(feature_ids) THEN st
    ELSE LET fid == feature_ids[i]
             sc == LPSScorecard(fid)
         IN  IF \E r \in st.lps_scorecards : r.feature_id = fid /\ r.computed_at = now
             THEN [st EXCEPT !.raised = "IntegrityError"]
             ELSE ScoringLoop(feature_ids, i + 1,
                    [st EXCEPT !.lps_scorecards = @ \cup {sc},
                               !.audit_log = audit(@, "LPS_SCORED", fid,
                                  [lps_total |-> sc.lps_total,
                                   min_granularity |-> sc.min_granularity])])

\* Controller.run_lps_scoring_batch(feature_ids)
run_lps_scoring_batch(feature_ids) ==
    LET st == ScoringLoop(feature_ids, 1,
                 [lps_scorecards |-> lps_scorecards, audit_log |-> audit_log,
                  raised |-> "none"])
    IN  /\ lps_scorecards' = st.lps_scorecards
        /\ audit_log' = st.audit_log
        /\ ret' = BatchOutcome(st)
        /\ UNCHANGED <<now, routing_decisions, runtime_contracts, runtime_staging,
                       materialized_features, catalog_features, feature_stats_ts,
                       probe_results>>
        /\ UNCHANGED <<connVars, budgetVars, gateVars, call, batch>>

\* Controller._compute_effective_variance, as the fraction <<numerator, denominator>>.
\* approx_variance is a whole number here.
compute_effective_variance(f, stats, boundary) ==
    LET N == Max2(1, stats.n_obs)
        sigma == policy.central_sigma
    IN  IF f.query_type = "MEAN_BOUNDED_0_1"
        THEN <<sigma * sigma + Max2(0, stats.approx_variance) * N * N, N * N>>
        ELSE <<sigma * sigma, N>>

\* Controller._boundary_rank
boundary_rank(b) == [LOCAL |-> 0, SHUFFLE |-> 1, CENTRAL |-> 2][b]

\* (x.effvar, GRAN_ORDER, rank) < (y.effvar, GRAN_ORDER, rank), as Python orders tuples.
KeyLess(x, y) ==
    LET xe == x.effvar[1] * y.effvar[2]
        ye == y.effvar[1] * x.effvar[2]
    IN  \/ xe < ye
        \/ /\ xe = ye
           /\ \/ GRAN_ORDER[x.granularity] < GRAN_ORDER[y.granularity]
              \/ /\ GRAN_ORDER[x.granularity] = GRAN_ORDER[y.granularity]
                 /\ boundary_rank(x.boundary) < boundary_rank(y.boundary)

\* The list `scored` of run_granularity_selection_batch for one feature.
scored_cells(fid, lps, window_id) ==
    LET f == get_feature_def(fid)
        has_support(c) ==
            LET stats == get_stats(fid, window_id, c[2])
            IN  /\ stats # None
                /\ ~(stats[1].min_support_est < policy.min_support_threshold)
        kept == SelectSeq(lps.admissible_set, has_support)
    IN  [i \in DOMAIN kept |->
            [boundary |-> kept[i][1], granularity |-> kept[i][2],
             effvar |-> compute_effective_variance(f,
                           get_stats(fid, window_id, kept[i][2])[1], kept[i][1])]]

\* A variant of the choice that compares the effective variance alone and, among
\* equals, takes the first cell in the order of the admissible set.
best_scored_NoTiebreak(scored) ==
    LET less(x, y) == x.effvar[1] * y.effvar[2] < y.effvar[1] * x.effvar[2]
    IN  scored[SetMin({i \in DOMAIN scored : \A j \in DOMAIN scored : ~less(scored[j], scored[i])})]

\* scored.sort(key=...)[0]: the keys of two cells of `scored` differ, so the
\* first element after the sort is the one no other element is below.
best_scored(scored) ==
    scored[CHOOSE i \in DOMAIN scored : \A j \in DOMAIN scored : ~KeyLess(scored[j], scored[i])]

\* Controller._prefer_lower_risk_boundary: sorted(boundaries, key=rank)[0].
prefer_lower_risk_boundary(boundaries) ==
    CHOOSE b \in Range(boundaries) : \A o \in Range(boundaries) : boundary_rank(b) <= boundary_rank(o)

\* Controller._persist_routing_decision on the tables st: the INSERT fails
\* (IntegrityError) when the feature has a decision with this issued_at.
persist_in(st, fid, boundary, granularity, reasons) ==
    IF \E rd \in st.routing_decisions : rd.feature_id = fid /\ rd.issued_at = now
    THEN [st EXCEPT !.raised = "IntegrityError"]
    ELSE [st EXCEPT
            !.routing_decisions = @ \cup
                {[DecisionAt0(fid, boundary, granularity, reasons) EXCEPT
                    !.contract_version = <<"c", fid, now>>, !.issued_at = now]},
            !.audit_log = audit(@, "ROUTING_DECIDED", fid,
                                [boundary |-> boundary, granularity |-> granularity,
                                 reasons |-> reasons])]

\* The body of the loop of run_granularity_selection_batch for one feature.
select_one(st, fid, window_id) ==
    LET lps == read_latest_lps(lps_scorecards, fid)
        scored == scored_cells(fid, lps[1], window_id)
        adm == lps[1].admissible_set
        admissible_grans == [i \in DOMAIN adm |-> adm[i][2]]
        g_star == coarsest(admissible_grans)
        is_g_star(c) == c[2] = g_star
        at_g_star == SelectSeq(adm, is_g_star)
        b_candidates == [i \in DOMAIN at_g_star |-> at_g_star[i][1]]
        best == best_scored(scored)
    IN  IF lps = None
        THEN [st EXCEPT !.audit_log = audit(@, "ROUTING_SKIPPED", fid, [reason |-> "NO_LPS"])]
        ELSE IF scored = <<>>
        THEN IF adm = <<>>
             THEN [st EXCEPT !.raised = "IndexError"]
             ELSE persist_in(st, fid, prefer_lower_risk_boundary(b_candidates), g_star,
                             <<"NO_FEASIBLE_STATS_FALLBACK_COARSE">>)
        ELSE persist_in(st, fid, best.boundary, best.granularity,
                        <<"MIN_EFFVAR_SELECTED", "TIEBREAK_FINEST_THEN_SAFEST">>)

\* The loop over feature_ids from position i on; an exception ends the batch.
RECURSIVE SelectionLoop(_, _, _, _)
SelectionLoop(feature_ids, i, st, window_id) ==
    IF i > Len(feature_ids) \/ st.raised # "none" THEN st
    ELSE SelectionLoop(feature_ids, i + 1, select_one(st, feature_ids[i], window_id), window_id)

\* The tables a selection batch starts from.
SelectionStart ==
    [routing_decisions |-> routing_decisions, audit_log |-> audit_log, raised |-> "none"]

\* Controller.run_granularity_selection_batch(feature_ids), window_id = "W1"
run_granularity_selection_batch(feature_ids) ==
    LET st == SelectionLoop(feature_ids, 1, SelectionStart, "W1")
    IN  /\ routing_decisions' = st.routing_decisions
        /\ audit_log' = st.audit_log
        /\ ret' = BatchOutcome(st)
        /\ UNCHANGED <<now, runtime_contracts, runtime_staging, materialized_features,
                       scoreVars>>
        /\ UNCHANGED <<connVars, budgetVars, gateVars, call, batch>>

\* The catalog of the selection runs: fA, whose definition varies, followed by a
\* fixed fB.  Tags, capabilities and candidates are JSON lists in the store; the
\* code only tests membership in them.
FeatureDefs ==
    {[feature_id |-> "fA", join_keys |-> jr[1], retention_days |-> jr[2],
      sensitivity_tags |-> tags, boundary_capabilities |-> bcaps,
      granularity_candidates |-> grans, query_type |-> qt] :
        jr \in {<< <<>>, 30 >>, << <<"user_id">>, 365 >>},
        tags \in SUBSET {"precise_location", "demographics"},
        bcaps \in {{"CENTRAL"}, {"LOCAL", "SHUFFLE", "CENTRAL"}},
        grans \in {{"ITEM", "CLUSTER"}, {"ITEM", "CLUSTER", "AGGREGATE"}},
        qt \in {"MEAN_BOUNDED_0_1", "COUNT"}}
FeatureB ==
    [feature_id |-> "fB", join_keys |-> <<>>, retention_days |-> 30,
     sensitivity_tags |-> {}, boundary_capabilities |-> {"LOCAL", "CENTRAL"},
     granularity_candidates |-> {"ITEM", "AGGREGATE"}, query_type |-> "COUNT"]

\* The snapshots of fA for window W1, per granularity: none, or one of these.
StatsSnapshot(g, n_obs, min_support_est, approx_variance) ==
    [feature_id |-> "fA", window_id |-> "W1", granularity |-> g, n_obs |-> n_obs,
     min_support_est |-> min_support_est, approx_variance |-> approx_variance]
StatsChoices ==
    [ITEM |-> {None, Some(StatsSnapshot("ITEM", 3, 3, 0))},
     CLUSTER |-> {None, Some(StatsSnapshot("CLUSTER", 3, 3, 0))},
     AGGREGATE |-> {None, Some(StatsSnapshot("AGGREGATE", 3, 0, 0)),
                    Some(StatsSnapshot("AGGREGATE", 4, 4, 0))}]
\* The probe of fA: none, or one AUC of 1.0.
ProbeChoices == {<<>>, [fA |-> <<ONE>>]}

SelectBatches == {<<"fA">>, <<"fB">>, <<"fA", "fB">>}

InitSelect ==
    /\ \E fa \in FeatureDefs : catalog_features = <<fa, FeatureB>>
    /\ \E si \in StatsChoices.ITEM, sc \in StatsChoices.CLUSTER, sa \in StatsChoices.AGGREGATE :
          feature_stats_ts = Range(si) \cup Range(sc) \cup Range(sa)
    /\ probe_results \in ProbeChoices
    /\ lps_scorecards = {}
    /\ now = 0
    /\ routing_decisions = {}
    /\ runtime_contracts = {}
    /\ runtime_staging = EmptyBag
    /\ materialized_features = EmptyBag
    /\ audit_log = <<>>
    /\ ConnIdle /\ BudgetIdle /\ GateIdle /\ LibIdle

ScoreBatch ==
    \E ids \in SelectBatches :
        Len(audit_log) + Len(ids) <= MaxScoringAudit /\ run_lps_scoring_batch(ids)
SelectBatch ==
    \E ids \in SelectBatches :
        Len(audit_log) + Len(ids) <= MaxScoringAudit /\ run_granularity_selection_batch(ids)

NextSelect == ScoreBatch \/ SelectBatch

SpecSelect == InitSelect /\ [][NextSelect]_vars

\* The band of an LPS total: the minimum granularity when no hard minimum applies.
BandOf(lps_total) ==
    IF lps_total >= policy.band_high THEN "AGGREGATE"
    ELSE IF lps_total >= policy.band_mid THEN "CLUSTER"
    ELSE "ITEM"

\* The cells open to a feature with the given LPS total, as the policy states them.
AdmissibleCells(f, lps_total) ==
    LET min_g == IF "demographics" \in f.sensitivity_tags THEN "CLUSTER" ELSE BandOf(lps_total)
    IN  {c \in f.boundary_capabilities \X f.granularity_candidates :
            /\ ~("precise_location" \in f.sensitivity_tags /\ c[1] = "CENTRAL")
            /\ GRAN_ORDER[c[2]] >= GRAN_ORDER[min_g]}

\* C24: the admissible set of every stored scorecard is the capabilities x
\* candidates of the feature, less the hard-denied boundaries, restricted to the
\* granularities at least as coarse as min_granularity, which is the hard tag
\* minimum when there is one and the band of lps_total otherwise; so no CENTRAL
\* cell for precise_location and no ITEM cell for demographics.
C24_AdmissibleSetOfScorecard ==
    \A sc \in lps_scorecards :
        LET f == get_feature_def(sc.feature_id)
        IN  /\ Range(sc.admissible_set) = AdmissibleCells(f, sc.lps_total)
            /\ Len(sc.admissible_set) = Cardinality(AdmissibleCells(f, sc.lps_total))
            /\ sc.min_granularity = (IF "demographics" \in f.sensitivity_tags
                                     THEN "CLUSTER" ELSE BandOf(sc.lps_total))
            /\ "precise_location" \in f.sensitivity_tags
                  => \A c \in Range(sc.admissible_set) : c[1] # "CENTRAL"
            /\ "demographics" \in f.sensitivity_tags
                  => \A c \in Range(sc.admissible_set) : c[2] # "ITEM"

\* A scorecard of a feature with both tags whose band (AGGREGATE) is coarser than
\* its hard minimum, and whose admissible set has a cell.
C24_Witness ==
    \E sc \in lps_scorecards :
        /\ get_feature_def(sc.feature_id).sensitivity_tags = {"precise_location", "demographics"}
        /\ BandOf(sc.lps_total) = "AGGREGATE"
        /\ <<"LOCAL", "CLUSTER">> \in Range(sc.admissible_set)

\* The admissible cells of the latest scorecard of fid that have a snapshot for
\* W1 with sufficient support.
SupportedCells(fid) ==
    LET lps == read_latest_lps(lps_scorecards, fid)
    IN  IF lps = None THEN {}
        ELSE {c \in Range(lps[1].admissible_set) :
                \E s \in feature_stats_ts :
                    /\ s.feature_id = fid /\ s.window_id = "W1" /\ s.granularity = c[2]
                    /\ s.min_support_est >= policy.min_support_threshold}

\* The effective variance of a cell of fid is at most that of another.
EffVarLeq(fid, c, d) ==
    LET f == get_feature_def(fid)
        vc == compute_effective_variance(f, get_stats(fid, "W1", c[2])[1], c[1])
        vd == compute_effective_variance(f, get_stats(fid, "W1", d[2])[1], d[1])
    IN  vc[1] * vd[2] <= vd[1] * vc[2]

\* The batch comes to position i of feature_ids: no earlier feature ends it with
\* an exception (a scored feature without admissible cell, or one that already
\* has a decision issued in this second).
BatchReaches(feature_ids, i) ==
    \A j \in 1..(i - 1) :
        LET lps == read_latest_lps(lps_scorecards, feature_ids[j])
        IN  lps # None =>
              /\ lps[1].admissible_set # <<>>
              /\ ~ \E rd \in routing_decisions :
                      rd.feature_id = feature_ids[j] /\ rd.issued_at = now

\* The routing decisions of fid a step adds.
NewDecisions(fid) == {rd \in routing_decisions' \ routing_decisions : rd.feature_id = fid}

\* C25: for a feature the selection batch comes to that has an admissible cell
\* with sufficient support (and no decision of this second), the batch stores
\* one routing decision, whose cell is such a cell, has the least effective
\* variance among such cells, is the finest among those of the same variance,
\* and has the lowest-risk boundary (LOCAL < SHUFFLE < CENTRAL) among those of
\* the same variance and granularity.
C25_MinEffVarSelected ==
    [][\A ids \in SelectBatches :
         run_granularity_selection_batch(ids) =>
           \A i \in DOMAIN ids :
             LET fid == ids[i]
                 cell(rd) == <<rd.selected_boundary, rd.selected_granularity>>
             IN  ( /\ SupportedCells(fid) # {}
                   /\ BatchReaches(ids, i)
                   /\ ~ \E rd \in routing_decisions : rd.feature_id = fid /\ rd.issued_at = now )
                 => /\ Cardinality(NewDecisions(fid)) = 1
                    /\ \A rd \in NewDecisions(fid) :
                         /\ cell(rd) \in SupportedCells(fid)
                         /\ \A c \in SupportedCells(fid) :
                              /\ EffVarLeq(fid, cell(rd), c)
                              /\ EffVarLeq(fid, c, cell(rd)) =>
                                   /\ GRAN_ORDER[rd.selected_granularity] <= GRAN_ORDER[c[2]]
                                   /\ c[2] = rd.selected_granularity =>
                                        boundary_rank(rd.selected_boundary) <= boundary_rank(c[1])
       ]_vars

\* A decision for fA that took AGGREGATE for its lower variance although ITEM was
\* supported, on the lowest-risk boundary of three.
C25_Witness ==
    \E rd \in routing_decisions :
        /\ rd.feature_id = "fA"
        /\ rd.decision_reason_codes = <<"MIN_EFFVAR_SELECTED", "TIEBREAK_FINEST_THEN_SAFEST">>
        /\ rd.selected_granularity = "AGGREGATE"
        /\ rd.selected_boundary = "LOCAL"
        /\ {<<"LOCAL", "ITEM">>, <<"CENTRAL", "AGGREGATE">>} \subseteq SupportedCells("fA")

\* The fallback cell of an admissible set: its coarsest granularity, with the
\* lowest-risk boundary admissible at that granularity.
IsFallbackCell(cells, b, g) ==
    /\ <<b, g>> \in cells
    /\ \A c \in cells : GRAN_ORDER[c[2]] <= GRAN_ORDER[g]
    /\ \A c \in cells : c[2] = g => boundary_rank(b) <= boundary_rank(c[1])

\* C26: every feature of a selection batch that has a scorecard but no admissible
\* cell with sufficient support gets exactly one routing decision in the batch,
\* with reason NO_FEASIBLE_STATS_FALLBACK_COARSE and the fallback cell of its
\* admissible set, whatever admissible set the scoring stored and wherever the
\* feature stands in the batch (no feature of the batch has a decision of this
\* second already).
C26_FallbackAlwaysDecides ==
    [][\A ids \in SelectBatches :
         ( /\ run_granularity_selection_batch(ids)
           /\ \A k \in DOMAIN ids :
                ~ \E rd \in routing_decisions : rd.feature_id = ids[k] /\ rd.issued_at = now )
         => \A i \in DOMAIN ids :
              LET fid == ids[i]
                  lps == read_latest_lps(lps_scorecards, fid)
              IN  (lps # None /\ SupportedCells(fid) = {})
                  => /\ Cardinality(NewDecisions(fid)) = 1
                     /\ \A rd \in NewDecisions(fid) :
                          /\ rd.decision_reason_codes = <<"NO_FEASIBLE_STATS_FALLBACK_COARSE">>
                          /\ IsFallbackCell(Range(lps[1].admissible_set),
                                            rd.selected_boundary, rd.selected_granularity)
       ]_vars

\* ----------------------------------------------------------------------
\* Lifecycle.drift_monitor, on a store in which time passes and the probe of fA
\* is replaced between scoring runs.

MaxDriftTime == 2
MaxDriftAudit == 4

\* A variant of the query that pairs the latest scorecard with the oldest one.
last_two_scorecards_Oldest(fid) ==
    LET rows == {r \in lps_scorecards : r.feature_id = fid}
        newest == CHOOSE r \in rows : \A o \in rows : o.computed_at <= r.computed_at
        oldest == CHOOSE r \in rows : \A o \in rows : o.computed_at >= r.computed_at
    IN  IF rows = {} THEN <<>>
        ELSE IF Cardinality(rows) = 1 THEN <<newest>>
        ELSE <<newest, oldest>>

\* SELECT ... WHERE feature_id=? ORDER BY computed_at DESC LIMIT 2
last_two_scorecards(fid) ==
    LET rows == {r \in lps_scorecards : r.feature_id = fid}
        newest == CHOOSE r \in rows : \A o \in rows : o.computed_at <= r.computed_at
        rest == rows \ {newest}
        second == CHOOSE r \in rest : \A o \in rest : o.computed_at <= r.computed_at
    IN  IF rows = {} THEN <<>>
        ELSE IF rest = {} THEN <<newest>>
        ELSE <<newest, second>>

Abs(x) == IF x < 0 THEN -x ELSE x

\* Lifecycle.drift_monitor(feature_id)
drift_monitor(feature_id) ==
    LET rows == last_two_scorecards(feature_id)
        drift == Abs(rows[1].lps_total - rows[2].lps_total)
    IN  /\ audit_log' =
              IF Len(rows) < 2 THEN audit_log
              ELSE IF drift > policy.tau_lps
              THEN audit(audit_log, "LPS_DRIFT", feature_id,
                         [drift |-> drift, tau |-> policy.tau_lps])
              ELSE audit_log
        /\ ret' = [status |-> "returned"]
        /\ UNCHANGED <<now, routing_decisions, runtime_contracts, runtime_staging,
                       materialized_features, scoreVars>>
        /\ UNCHANGED <<connVars, budgetVars, gateVars, call, batch>>

\* Store.upsert_probe: INSERT OR REPLACE of the probe of the feature.
upsert_probe(fid, metrics) ==
    /\ probe_results' = [f \in DOMAIN probe_results \cup {fid} |->
                            IF f = fid THEN metrics ELSE probe_results[f]]
    /\ UNCHANGED <<now, routing_decisions, runtime_contracts, runtime_staging,
                   materialized_features, audit_log, catalog_features, feature_stats_ts,
                   lps_scorecards>>
    /\ UNCHANGED <<connVars, budgetVars, gateVars, libVars>>

\* The AUC values of the probes: 0.5, 0.7 and 1.0.
ProbeAUCs == {ONE \div 2, (7 * ONE) \div 10, ONE}

FeatureA ==
    [feature_id |-> "fA", join_keys |-> <<>>, retention_days |-> 30,
     sensitivity_tags |-> {}, boundary_capabilities |-> {"LOCAL", "CENTRAL"},
     granularity_candidates |-> {"ITEM", "AGGREGATE"}, query_type |-> "COUNT"]

InitDrift ==
    /\ catalog_features = <<FeatureA, FeatureB>>
    /\ feature_stats_ts = {}
    /\ probe_results = <<>>
    /\ lps_scorecards = {}
    /\ now = 0
    /\ routing_decisions = {}
    /\ runtime_contracts = {}
    /\ runtime_staging = EmptyBag
    /\ materialized_features = EmptyBag
    /\ audit_log = <<>>
    /\ ConnIdle /\ BudgetIdle /\ GateIdle /\ LibIdle

Advance ==
    /\ now < MaxDriftTime
    /\ now' = now + 1
    /\ UNCHANGED <<routing_decisions, runtime_contracts, runtime_staging,
                   materialized_features, audit_log, scoreVars>>
    /\ UNCHANGED <<connVars, budgetVars, gateVars, libVars>>
Probe == \E auc \in ProbeAUCs : upsert_probe("fA", <<auc>>)
ScoreDrift ==
    \E ids \in {<<"fA">>, <<"fA", "fB">>} :
        Len(audit_log) + Len(ids) <= MaxDriftAudit /\ run_lps_scoring_batch(ids)
Drift == \E fid \in {"fA", "fB"} : Len(audit_log) < MaxDriftAudit /\ drift_monitor(fid)

NextDrift == Advance \/ Probe \/ ScoreDrift \/ Drift

SpecDrift == InitDrift /\ [][NextDrift]_vars

\* The stored scorecards of fid, and the claim's condition on them: there are at
\* least two, and the LPS totals of the two most recent ones differ by more than tau_lps.
ScorecardsOf(fid) == {r \in lps_scorecards : r.feature_id = fid}
DriftExceedsTau(fid) ==
    \E s0, s1 \in ScorecardsOf(fid) :
        /\ s0.computed_at > s1.computed_at
        /\ \A o \in ScorecardsOf(fid) : o = s0 \/ o.computed_at <= s1.computed_at
        /\ \/ s0.lps_total - s1.lps_total > policy.tau_lps
           \/ s1.lps_total - s0.lps_total > policy.tau_lps

\* C28: drift_monitor(fid) appends one LPS_DRIFT audit entry for fid when fid has
\* at least two scorecards and the LPS totals of the two most recent differ by
\* strictly more than tau_lps, and appends nothing otherwise; it never changes a
\* scorecard, a routing decision or a contract.
C28_DriftIsAdvisory ==
    [][\A fid \in {"fA", "fB"} :
         drift_monitor(fid) =>
           /\ DriftExceedsTau(fid) =>
                /\ Len(audit_log') = Len(audit_log) + 1
                /\ SubSeq(audit_log', 1, Len(audit_log)) = audit_log
                /\ Last(audit_log').event_type = "LPS_DRIFT"
                /\ Last(audit_log').feature_id = fid
           /\ ~DriftExceedsTau(fid) => audit_log' = audit_log
           /\ UNCHANGED <<lps_scorecards, routing_decisions, runtime_contracts>>
      ]_vars

\* An LPS_DRIFT entry for fA, which has three scorecards of which the oldest and
\* the newest have the same total.
C28_Witness ==
    /\ \E i \in DOMAIN audit_log :
          audit_log[i].event_type = "LPS_DRIFT" /\ audit_log[i].feature_id = "fA"
    /\ \E s0, s1, s2 \in ScorecardsOf("fA") :
          /\ s0.computed_at > s1.computed_at /\ s1.computed_at > s2.computed_at
          /\ s0.lps_total = s2.lps_total

\* ----------------------------------------------------------------------
\* Releases of the runtime plane and the staged events behind them.

\* The contract row a materialized row was written under.
ContractOfRow(r) ==
    (CHOOSE c \in runtime_contracts : c.contract_version = r.contract_version).payload

\* The impressions staged for the cell of a materialized row, whatever the
\* granularity they were staged under.
StagedImpressions(r) ==
    LET mine == {x \in DOMAIN runtime_staging :
                    /\ x.boundary = r.boundary /\ x.feature_id = r.feature_id
                    /\ x.window_id = r.window_id /\ x.cell_key = r.cell_key}
    IN  BagSum([x \in mine |-> runtime_staging[x]], "impressions")

\* C29: every materialized row stands for a cell whose aggregated impressions
\* reach the min_support_threshold of the contract it was written under, whether
\* or not the run that wrote it downgraded the contract.  (Staged rows are never
\* removed, so the impressions of a cell do not shrink after the release.)
C29_MinSupportOnEveryRelease ==
    \A r \in DOMAIN materialized_features :
        StagedImpressions(r) >= ContractOfRow(r).dp_parameters.min_support_threshold

\* The controller re-deciding and re-issuing while the runtime plane ingests and
\* materializes: a new contract version can become active between an ingest and
\* the materialize of its window.
\* The store starts with the first contract of f1 issued; the signals are valid ones.
InitReissue ==
    /\ InitRuntime
    /\ {rd.feature_id : rd \in routing_decisions} = {"f1"}
Redecide ==
    \E b \in get_feature("f1").boundary_capabilities :
      \E g \in get_feature("f1").granularity_candidates :
        persist_routing_decision("f1", b, g,
            <<"MIN_EFFVAR_SELECTED", "TIEBREAK_FINEST_THEN_SAFEST">>)
Reissue == run_contract_issuance_batch("f1")
IngestValid ==
    \E cell \in Cells, s \in {<<0, 1>>, <<2, 2>>} : ingest_signal("f1", "W1", cell, s[1], s[2])

NextReissue == Tick \/ Redecide \/ Reissue \/ IngestValid \/ Materialize

SpecReissue == InitReissue /\ [][NextReissue]_vars

\* The events staged for (boundary, fid, window_id), under whatever granularity
\* the contract active at their ingest had.
StagedEvents(boundary, fid, window_id) ==
    {r \in DOMAIN runtime_staging :
        r.boundary = boundary /\ r.feature_id = fid /\ r.window_id = window_id}

\* C30: materialize(b, w) leaves no staged event of a feature whose active
\* contract is at b unaccounted for: for each event staged for (b, f, w) the step
\* writes a materialized row of the event's cell for f, or it appends a BLOCK
\* entry (MIN_SUPPORT_FAIL) for f; also when the contract active now is not the
\* one the event was staged under.
C30_NoStagedEventLost ==
    [][\A b \in Range(BOUNDARIES), w \in Windows :
          materialize(b, w) =>
            \A fid \in FeatureIds :
              (read_active_contract(runtime_contracts, fid) # NoContract
                 /\ read_active_contract(runtime_contracts, fid).boundary = b)
              => \A e \in StagedEvents(b, fid, w) :
                   \/ \E r \in DOMAIN materialized_features' :
                        /\ r.feature_id = fid /\ r.window_id = w /\ r.cell_key = e.cell_key
                        /\ r.boundary = b
                        /\ materialized_features'[r] >
                              (IF r \in DOMAIN materialized_features
                               THEN materialized_features[r] ELSE 0)
                   \/ \E i \in DOMAIN NewEntries :
                        /\ NewEntries[i].event_type = "BLOCK"
                        /\ NewEntries[i].feature_id = fid
                        /\ NewEntries[i].details.reason = "MIN_SUPPORT_FAIL"
      ]_vars

\* ----------------------------------------------------------------------
\* plan_counterfactuals (src/src/ppds/planner.py)

\* An edit string is the tuple of its parts: "bucketize:<field>:<old>-><new>" is
\* <<"bucketize", field, old, new>> and "drop_field:<field>" is <<"drop_field", field>>.
EDIT_BUCKETIZE == "bucketize"
EDIT_DROP_FIELD == "drop_field"

\* {k: v for k, v in d.items() if k != name}
without_key(d, name) == [k \in DOMAIN d \ {name} |-> d[k]]
\* {**d, name: v}
with_key(d, name, v) == [k \in DOMAIN d \cup {name} |-> IF k = name THEN v ELSE d[k]]

\* The two loops that build `candidates`: <<edit, edited feature>> pairs, the
\* bucketize edits first, each group in the order of feature.fields.
counterfactual_candidates(feature) ==
    LET fs == feature.fields
        bz == feature.bucketizations
        new_b(f) == Max2(2, bz[f.name] \div 2)
        coarsens(f) == f.is_sensitive /\ f.name \in DOMAIN bz /\ new_b(f) # bz[f.name]
        drops(f) == f.is_identifier \/ f.is_sensitive
        other(name) == LET keep(x) == x.name # name IN SelectSeq(fs, keep)
        bs == SelectSeq(fs, coarsens)
        ds == SelectSeq(fs, drops)
    IN  [i \in DOMAIN bs |->
            << <<EDIT_BUCKETIZE, bs[i].name, bz[bs[i].name], new_b(bs[i])>>,
               [feature EXCEPT !.bucketizations = with_key(bz, bs[i].name, new_b(bs[i]))] >>]
        \o
        [i \in DOMAIN ds |->
            << <<EDIT_DROP_FIELD, ds[i].name>>,
               [feature EXCEPT !.fields = other(ds[i].name),
                               !.bucketizations = without_key(bz, ds[i].name)] >>]

\* A variant of the sort that leaves the list in the order it was built.
sort_candidates_Unsorted(out) == out

\* x sorts before y: (not feasible_at_target, risk) of x is below that of y.
CandidateBefore(x, y) ==
    \/ x.feasible_at_target /\ ~y.feasible_at_target
    \/ /\ x.feasible_at_target = y.feasible_at_target
       /\ x.scorecard.risk < y.scorecard.risk

\* x put into a sorted list, after every element it does not sort before.
RECURSIVE put_sorted(_, _)
put_sorted(x, sorted) ==
    IF sorted = <<>> THEN <<x>>
    ELSE IF CandidateBefore(x, Head(sorted)) THEN <<x>> \o sorted
    ELSE <<Head(sorted)>> \o put_sorted(x, Tail(sorted))

\* out.sort(key=lambda x: (not x["feasible_at_target"], x["scorecard"].risk)):
\* a stable sort.
RECURSIVE sort_candidates(_)
sort_candidates(out) ==
    IF out = <<>> THEN <<>>
    ELSE put_sorted(out[Len(out)], sort_candidates(SubSeq(out, 1, Len(out) - 1)))

plan_counterfactuals(feature, th, target_g) ==
    LET candidates == counterfactual_candidates(feature)
        entry(c) ==
            LET sc == compute_scorecard(c[2], target_g, th)
                ok == feasible_granularity(sc, target_g, th)
                hyp == Decision("CENTRAL", target_g, ok, sc, "counterfactual_candidate")
            IN  [edit |-> c[1], target_granularity |-> target_g,
                 feasible_at_target |-> ok, scorecard |-> sc,
                 planner_constraints_json |-> compile_to_planner_constraints(c[2], hyp, th)]
    IN  sort_candidates([i \in DOMAIN candidates |-> entry(candidates[i])])

CallPlanCounterfactuals ==
    /\ call # <<>> /\ call.fn = "plan_counterfactuals"
    /\ ret = NoReturn
    /\ ret' = [status |-> "returned",
               value |-> plan_counterfactuals(call.feature, call.th, call.target_g)]
    /\ UNCHANGED <<call, batch, storeVars, connVars, budgetVars, gateVars>>

\* The features the counterfactuals are planned for: fields in several orders,
\* bucket counts declared for some of them.
Field(name, is_sensitive, is_identifier) ==
    [name |-> name, is_sensitive |-> is_sensitive, is_identifier |-> is_identifier]
CounterfactualFields ==
    LET income == Field("income", TRUE, FALSE)
        age == Field("age", TRUE, FALSE)
        user_id == Field("user_id", FALSE, TRUE)
        region == Field("region", FALSE, FALSE)
    IN  {<<>>, <<region>>, <<age, region>>, <<user_id, income>>,
         <<income, age, user_id>>, <<user_id, age, income>>}
BucketChoices ==
    {[k \in S |-> IF k = "income" THEN bi ELSE IF k = "age" THEN ba ELSE 8] :
        S \in SUBSET {"income", "age", "region"}, bi \in {2, 3, 400}, ba \in {1, 80}}
CounterfactualFeatures ==
    [feature_id : {"f"}, fields : CounterfactualFields, join_keys : {<<>>},
     ttl_days : {90}, bucketizations : BucketChoices, policy_tags : {<<>>},
     support_hint : {[g \in Range(gran_order) |-> None]}]
\* tau_granularity is 0.05, 0.2, 0.25 or 0.35 at every granularity.
CounterfactualThresholds ==
    {PolicyThresholds([b \in Range(boundary_order) |-> 50 * ONE],
                      [g \in Range(gran_order) |-> t * ONE], 2, 30, 35, 25, 10).value :
        t \in {5, 20, 25, 35}}

InitCounterfactual ==
    /\ call \in [fn : {"plan_counterfactuals"}, feature : CounterfactualFeatures,
                 th : CounterfactualThresholds, target_g : Range(gran_order)]
    /\ ret = NoReturn
    /\ batch = <<>>
    /\ StoreInit /\ ConnIdle /\ BudgetIdle /\ GateIdle

NextCounterfactual == CallPlanCounterfactuals

SpecCounterfactual == InitCounterfactual /\ [][NextCounterfactual]_vars

\* The edits the claim lists for a feature (its field names are distinct).
ExpectedEdits(feature) ==
    LET bz == feature.bucketizations
        fs == Range(feature.fields)
    IN  {<<"bucketize", f.name, bz[f.name], Max2(2, bz[f.name] \div 2)>> :
            f \in {x \in fs : /\ x.is_sensitive /\ x.name \in DOMAIN bz
                              /\ Max2(2, bz[x.name] \div 2) # bz[x.name]}}
        \cup {<<"drop_field", f.name>> : f \in {x \in fs : x.is_identifier \/ x.is_sensitive}}

\* C27: plan_counterfactuals returns one bucketize candidate (new = max(2, old
\* // 2)) for each sensitive field with a declared bucket count that the halving
\* changes and one drop_field candidate for each identifier or sensitive field,
\* and nothing else; each is marked feasible exactly when its risk is within
\* tau_granularity of the target; in the returned list every feasible candidate
\* stands before every infeasible one and the risk does not decrease within
\* each group; the call leaves its arguments as they were.
C27_CounterfactualsOrdered ==
    /\ [](Called("plan_counterfactuals") =>
           LET out == ret.value IN
           /\ ret.status = "returned"
           /\ {out[i].edit : i \in DOMAIN out} = ExpectedEdits(call.feature)
           /\ Len(out) = Cardinality(ExpectedEdits(call.feature))
           /\ \A i \in DOMAIN out :
                /\ out[i].feasible_at_target
                     <=> (out[i].scorecard.risk <= call.th.tau_granularity[call.target_g])
                /\ out[i].target_granularity = call.target_g
           /\ \A i, j \in DOMAIN out :
                i < j => /\ out[j].feasible_at_target => out[i].feasible_at_target
                         /\ (out[i].feasible_at_target <=> out[j].feasible_at_target)
                               => out[i].scorecard.risk <= out[j].scorecard.risk)
    /\ [][call' = call]_vars

\* A returned list of five candidates, bucketize and drop_field, some feasible
\* and some not, that begins with a drop_field although the bucketize
\* candidates were built first; one bucket count of 1 was raised to 2.
C27_Witness ==
    /\ Called("plan_counterfactuals")
    /\ Len(ret.value) = 5
    /\ ret.value[1].edit[1] = "drop_field"
    /\ ret.value[1].feasible_at_target
    /\ ~ret.value[5].feasible_at_target
    /\ \E i \in DOMAIN ret.value : ret.value[i].edit = <<"bucketize", "age", 1, 2>>

====
